---- MODULE Spec2Model ----
(***************************************************************************)
(* Model of the soulflame networking core: wire primitives (net_io.rs),    *)
(* the staged packet schema (net_io/packet.rs, protocol/client/*.rs) and   *)
(* the framer PacketEncoder / PacketDecoder (network/encode.rs), driven    *)
(* the way OutgoingPacketChannel::send_packet and                          *)
(* InboundPacketChannel::read_packet (network/client.rs) drive them.       *)
(*                                                                         *)
(* Bytes are integers 0..255, buffers are sequences of bytes.  A cursor    *)
(* over a buffer is the number of bytes already consumed.  Option<T> is a  *)
(* sequence of length 0 (None) or 1 (Some).  An i64 is kept as four 16-bit *)
(* limbs, most significant first, so that no model value leaves the range  *)
(* of the checker's integers.                                              *)
(***************************************************************************)
EXTENDS Integers, Sequences, FiniteSets, TLC

None == <<>>
Some(x) == <<x>>

\* let x = e; K(x), with e evaluated once.
Bind(e, K(_)) == CHOOSE y \in {K(x) : x \in {e}} : TRUE

\* let x = r?; K(x): an Err is returned as it is.
Try(r, K(_)) == CHOOSE y \in {IF x.ok THEN K(x) ELSE x : x \in {r}} : TRUE

\* Result of a reader: Ok(val) with the cursor after it, or Err(err).
ROk(v, p) == [ok |-> TRUE, val |-> v, pos |-> p, err |-> ""]
RErr(e, p) == [ok |-> FALSE, val |-> 0, pos |-> p, err |-> e]

\* Result of a writer: the buffer after the write, and whether it succeeded.
WOk(b) == [ok |-> TRUE, buf |-> b]
WErr(b) == [ok |-> FALSE, buf |-> b]

IsPrefix(s, t) == Len(s) <= Len(t) /\ SubSeq(t, 1, Len(s)) = s

\* buf[from+1 ..], the rest of a buffer behind a cursor.
Rest(buf, from) == SubSeq(buf, from + 1, Len(buf))

Min(a, b) == IF a < b THEN a ELSE b

(***************************************************************************)
(* 32-bit two's complement helpers for VarInt.                             *)
(***************************************************************************)
MinI32 == -2147483647 - 1

Bit32(v, i) == IF i = 31 THEN (IF v < 0 THEN 1 ELSE 0) ELSE (v \div (2 ^ i)) % 2

RECURSIVE SumBits(_, _)
SumBits(f, i) == IF i < 0 THEN 0 ELSE f[i] * (2 ^ i) + SumBits(f, i - 1)

FromBits32(f) == SumBits(f, 30) + (IF f[31] = 1 THEN MinI32 ELSE 0)

\* v | value.overflowing_shl(7 * size).0 on i32: the shift amount is taken
\* modulo 32 and bits shifted past bit 31 are lost.
OrShl(v, value, size) ==
    Bind((7 * size) % 32, LAMBDA sh :
        IF sh <= 21 /\ 0 <= v /\ v < 2 ^ sh
        THEN v + value * (2 ^ sh)    \* no common bits, nothing shifted out
        ELSE Bind([i \in 0..31 |->
                      IF Bit32(v, i) = 1 \/ (i >= sh /\ Bit32(value, i - sh) = 1)
                      THEN 1 ELSE 0],
                  LAMBDA f : FromBits32(f)))

\* (v as u32) >> 7, which is below 2^25
ShrU32By7(v) == IF v >= 0 THEN v \div 128 ELSE (v \div 128) + 33554432

(***************************************************************************)
(* VarInt                                                                  *)
(***************************************************************************)
RECURSIVE VarIntWrite(_)
VarIntWrite(v) ==
    Bind(ShrU32By7(v), LAMBDA rest :
        IF rest # 0 THEN <<(v % 128) + 128>> \o VarIntWrite(rest) ELSE <<v % 128>>)

VarIntSizeLimit == 5

\* A variant of VarIntReadLoop that gives up one byte early.
RECURSIVE VarIntReadLoopOneShort(_, _, _, _)
VarIntReadLoopOneShort(buf, pos, size, v) ==
    IF pos >= Len(buf) THEN RErr("eof", pos)
    ELSE Bind(OrShl(v, buf[pos + 1] % 128, size), LAMBDA v2 :
            IF size + 1 >= VarIntSizeLimit THEN RErr("VarInt too long", pos + 1)
            ELSE IF buf[pos + 1] \div 128 = 0 THEN ROk(v2, pos + 1)
            ELSE VarIntReadLoopOneShort(buf, pos + 1, size + 1, v2))

RECURSIVE VarIntReadLoop(_, _, _, _)
VarIntReadLoop(buf, pos, size, v) ==
    IF pos >= Len(buf) THEN RErr("eof", pos)
    ELSE Bind(OrShl(v, buf[pos + 1] % 128, size), LAMBDA v2 :
            IF size + 1 > VarIntSizeLimit THEN RErr("VarInt too long", pos + 1)
            ELSE IF buf[pos + 1] \div 128 = 0 THEN ROk(v2, pos + 1)
            ELSE VarIntReadLoop(buf, pos + 1, size + 1, v2))

VarIntRead(buf, pos) == VarIntReadLoop(buf, pos, 0, 0)

(***************************************************************************)
(* Fixed-width primitives (big-endian, tokio's write_u16 / write_i64)      *)
(***************************************************************************)
U16Write(v) == <<v \div 256, v % 256>>

U16Read(buf, pos) ==
    IF pos + 2 > Len(buf) THEN RErr("eof", pos)
    ELSE ROk(buf[pos + 1] * 256 + buf[pos + 2], pos + 2)

I64Write(l) == U16Write(l[1]) \o U16Write(l[2]) \o U16Write(l[3]) \o U16Write(l[4])

I64Read(buf, pos) ==
    IF pos + 8 > Len(buf) THEN RErr("eof", pos)
    ELSE ROk(<<buf[pos + 1] * 256 + buf[pos + 2], buf[pos + 3] * 256 + buf[pos + 4],
               buf[pos + 5] * 256 + buf[pos + 6], buf[pos + 7] * 256 + buf[pos + 8]>>,
             pos + 8)

(***************************************************************************)
(* String: VarInt byte length, then UTF-8 bytes                            *)
(***************************************************************************)
MAX_STRING_SIZE == 32767

InR(b, lo, hi) == lo <= b /\ b <= hi

\* String::from_utf8 accepts exactly the well-formed UTF-8 byte sequences.
\* The number of bytes of the sequence a lead byte opens; 0 for a byte that
\* opens none.
Utf8Width(c) ==
    IF c < 128 THEN 1
    ELSE IF InR(c, 194, 223) THEN 2
    ELSE IF InR(c, 224, 239) THEN 3
    ELSE IF InR(c, 240, 244) THEN 4
    ELSE 0

\* the second byte d of the sequence opened by the lead byte c
Utf8Second(c, d) ==
    InR(d, IF c = 224 THEN 160 ELSE IF c = 240 THEN 144 ELSE 128,
           IF c = 237 THEN 159 ELSE IF c = 244 THEN 143 ELSE 191)

\* Every lead byte is followed by its continuation bytes, and every
\* continuation byte belongs to the sequence of a lead byte before it.
IsUtf8(b) ==
    \A i \in 1..Len(b) :
        IF InR(b[i], 128, 191)
        THEN \E j \in 1..Min(3, i - 1) :
                /\ Utf8Width(b[i - j]) > j
                /\ \A k \in 1..(j - 1) : InR(b[i - k], 128, 191)
        ELSE \E w \in {Utf8Width(b[i])} :
                /\ w > 0
                /\ i + w - 1 <= Len(b)
                /\ w > 1 => Utf8Second(b[i], b[i + 1])
                /\ \A k \in 2..(w - 1) : InR(b[i + k], 128, 191)

\* A variant of StringWrite whose cap is one byte lower.
StringWriteOneShort(s, buffer) ==
    IF Len(s) >= MAX_STRING_SIZE THEN WErr(buffer)
    ELSE WOk(buffer \o VarIntWrite(Len(s)) \o s)

StringWrite(s, buffer) ==
    IF Len(s) > MAX_STRING_SIZE THEN WErr(buffer)
    ELSE WOk(buffer \o VarIntWrite(Len(s)) \o s)

\* the size is the VarInt as usize: a negative one is above every cap
StringRead(buf, pos) ==
    Try(VarIntRead(buf, pos), LAMBDA sz :
        IF sz.val < 0 \/ sz.val > MAX_STRING_SIZE
        THEN RErr("Read String too long", sz.pos)
        ELSE IF sz.pos + sz.val > Len(buf) THEN RErr("eof", sz.pos)
        ELSE Bind(SubSeq(buf, sz.pos + 1, sz.pos + sz.val), LAMBDA bytes :
                IF IsUtf8(bytes) THEN ROk(bytes, sz.pos + sz.val)
                ELSE RErr("invalid utf-8", sz.pos + sz.val)))

(***************************************************************************)
(* Schema codec: define_enum! HandshakeState and the staged_packets!       *)
(* stages InHandshake and InStatus.  A packet value is a record whose name *)
(* field is the struct's name.                                             *)
(***************************************************************************)
HandshakeStateId(s) == IF s = "Status" THEN 1 ELSE 2

\* A variant of HandshakeStateFromId that takes every other id for Login.
HandshakeStateFromIdOrLogin(id, pos) ==
    IF id = 1 THEN ROk("Status", pos) ELSE ROk("Login", pos)

HandshakeStateFromId(id, pos) ==
    IF id = 1 THEN ROk("Status", pos)
    ELSE IF id = 2 THEN ROk("Login", pos)
    ELSE RErr("Invalid HandshakeState ID provided", pos)

HandshakeStateRead(buf, pos) ==
    Try(VarIntRead(buf, pos), LAMBDA id : HandshakeStateFromId(id.val, id.pos))

\* struct PacketRead: the fields in declaration order, no packet id
PacketHandshakeInRead(buf, pos) ==
    Try(VarIntRead(buf, pos), LAMBDA protocol_version :
    Try(StringRead(buf, protocol_version.pos), LAMBDA server_address :
    Try(U16Read(buf, server_address.pos), LAMBDA server_port :
    Try(HandshakeStateRead(buf, server_port.pos), LAMBDA next_state :
        ROk([name |-> "PacketHandshakeIn",
             protocol_version |-> protocol_version.val,
             server_address |-> server_address.val,
             server_port |-> server_port.val,
             next_state |-> next_state.val], next_state.pos)))))

\* struct PacketWrite: the packet id, then the fields in declaration order
PacketHandshakeInWrite(p, buffer) ==
    Try(StringWrite(p.server_address,
                    buffer \o VarIntWrite(0) \o VarIntWrite(p.protocol_version)),
        LAMBDA s : WOk(s.buf \o U16Write(p.server_port)
                             \o VarIntWrite(HandshakeStateId(p.next_state))))

PacketStatusInRequestRead(buf, pos) == ROk([name |-> "PacketStatusInRequest"], pos)

PacketStatusInRequestWrite(p, buffer) == WOk(buffer \o VarIntWrite(0))

PacketStatusInPingRead(buf, pos) ==
    Try(I64Read(buf, pos), LAMBDA payload :
        ROk([name |-> "PacketStatusInPing", payload |-> payload.val], payload.pos))

PacketStatusInPingWrite(p, buffer) == WOk(buffer \o VarIntWrite(1) \o I64Write(p.payload))

\* stage PacketRead: leading VarInt id, then the variant's reader
InHandshakeRead(buf, pos) ==
    Try(VarIntRead(buf, pos), LAMBDA id :
        IF id.val = 0 THEN PacketHandshakeInRead(buf, id.pos)
        ELSE RErr("Received invalid packet type", id.pos))

\* A variant of InStatusRead that takes every other id for a request.
InStatusReadAnyId(buf, pos) ==
    Try(VarIntRead(buf, pos), LAMBDA id :
        IF id.val = 1 THEN PacketStatusInPingRead(buf, id.pos)
        ELSE PacketStatusInRequestRead(buf, id.pos))

InStatusRead(buf, pos) ==
    Try(VarIntRead(buf, pos), LAMBDA id :
        IF id.val = 0 THEN PacketStatusInRequestRead(buf, id.pos)
        ELSE IF id.val = 1 THEN PacketStatusInPingRead(buf, id.pos)
        ELSE RErr("Received invalid packet type", id.pos))

\* The stage of the packets a client sends in Play.  A stage made by
\* staged_packets! like the two above: a leading VarInt id, then the
\* fields of the packet of that id.  It is taken to hold two packets,
\* 0x00 and 0x01, without fields.
PacketPlayInRead(buf, pos) ==
    Try(VarIntRead(buf, pos), LAMBDA id :
        IF id.val \in {0, 1} THEN ROk([name |-> "PacketPlayIn", id |-> id.val], id.pos)
        ELSE RErr("Received invalid packet type", id.pos))

PacketPlayInWrite(p, buffer) == WOk(buffer \o VarIntWrite(p.id))

(***************************************************************************)
(* The outgoing status stage (protocol/server/status.rs).  StatusResponse  *)
(* is a json_packet_struct!: on the wire it is the String that serde_json  *)
(* renders.                                                                *)
(***************************************************************************)
(***************************************************************************)
(* serde_json::to_string of the structs of json_packet_struct! in          *)
(* protocol/server/status.rs: an object of the fields in declaration       *)
(* order, integers in decimal, strings quoted and escaped.                 *)
(***************************************************************************)
RECURSIVE JsonDigits(_)
\* the decimal digits of n < 0, without the sign
JsonDigits(n) ==
    Bind((10 - (n % 10)) % 10, LAMBDA d :
    Bind((n + d) \div 10, LAMBDA q :
        (IF q = 0 THEN <<>> ELSE JsonDigits(q)) \o <<48 + d>>))

\* an i32 in decimal
JsonI32(n) ==
    IF n = 0 THEN <<48>>
    ELSE IF n < 0 THEN <<45>> \o JsonDigits(n)
    ELSE JsonDigits(-n)

HexDigit(h) == IF h < 10 THEN 48 + h ELSE 87 + h

\* one byte of a string, escaped
JsonEscape(c) ==
    CASE c = 34 -> <<92, 34>>
      [] c = 92 -> <<92, 92>>
      [] c = 8 -> <<92, 98>>
      [] c = 9 -> <<92, 116>>
      [] c = 10 -> <<92, 110>>
      [] c = 12 -> <<92, 102>>
      [] c = 13 -> <<92, 114>>
      [] c < 32 /\ c \notin {8, 9, 10, 12, 13} ->
             <<92, 117, 48, 48, HexDigit(c \div 16), HexDigit(c % 16)>>
      [] OTHER -> <<c>>

RECURSIVE JsonEscaped(_)
JsonEscaped(s) == IF s = <<>> THEN <<>> ELSE JsonEscape(Head(s)) \o JsonEscaped(Tail(s))

JsonString(s) == <<34>> \o JsonEscaped(s) \o <<34>>

\* a Component is kept as the bytes serde_json renders it to; lobster(text)
\* of the crate lobstermessage is taken to give the component of that text
Lobster(text) == <<123, 34, 116, 101, 120, 116, 34, 58>> \o JsonString(text) \o <<125>>

\* ServerVersion::new, ServerPlayers::new and StatusResponse::new
ServerVersionNew(name, protocol) == [name |-> name, protocol |-> protocol]

ServerPlayersNew(max, online, sample) == [max |-> max, online |-> online, sample |-> sample]

StatusResponseNew(version, players, description, favicon) ==
    [version |-> version, players |-> players, description |-> description,
     favicon |-> favicon]

\* the sample is empty in every response the server builds
StatusResponseJson(r) ==
    <<123, 34, 118, 101, 114, 115, 105, 111, 110, 34, 58, 123, 34, 110, 97, 109, 101, 34, 58>> \o JsonString(r.version.name)
        \o <<44, 34, 112, 114, 111, 116, 111, 99, 111, 108, 34, 58>> \o JsonI32(r.version.protocol)
        \o <<125, 44, 34, 112, 108, 97, 121, 101, 114, 115, 34, 58, 123, 34, 109, 97, 120, 34, 58>> \o JsonI32(r.players.max)
        \o <<44, 34, 111, 110, 108, 105, 110, 101, 34, 58>> \o JsonI32(r.players.online)
        \o <<44, 34, 115, 97, 109, 112, 108, 101, 34, 58, 91, 93, 125>>
        \o <<44, 34, 100, 101, 115, 99, 114, 105, 112, 116, 105, 111, 110, 34, 58>> \o r.description
        \o <<44, 34, 102, 97, 118, 105, 99, 111, 110, 34, 58>> \o JsonString(r.favicon) \o <<125>>

\* protocol/server/status.rs: PacketStatusOutResponse(0x00) { response: StatusResponse }
PacketStatusOutResponseWrite(p, buffer) ==
    StringWrite(StatusResponseJson(p.response), buffer \o VarIntWrite(0))

PacketStatusOutPongWrite(p, buffer) == WOk(buffer \o VarIntWrite(1) \o I64Write(p.payload))

PacketStatusOutPongRead(buf, pos) ==
    Try(I64Read(buf, pos), LAMBDA payload :
        ROk([name |-> "PacketStatusOutPong", payload |-> payload.val], payload.pos))

\* PacketStatusOutPong::new(payload)
PacketStatusOutPongNew(payload) == [name |-> "PacketStatusOutPong", payload |-> payload]

\* PacketStatusOutResponse::new(response)
PacketStatusOutResponseNew(response) ==
    [name |-> "PacketStatusOutResponse", response |-> response]

(***************************************************************************)
(* Component (chat.rs) is written as the String serde_json renders, under  *)
(* its own cap; it is kept here as its bytes.                              *)
(***************************************************************************)
MAX_COMPONENT_JSON_SIZE == 262144

ComponentWrite(c, buffer) ==
    IF Len(c) > MAX_COMPONENT_JSON_SIZE THEN WErr(buffer)
    ELSE WOk(buffer \o VarIntWrite(Len(c)) \o c)

\* protocol/server/login.rs: PacketLoginOutDisconnect(0x00) { reason: Component }
PacketLoginOutDisconnectWrite(p, buffer) == ComponentWrite(p.reason, buffer \o VarIntWrite(0))

\* PacketLoginOutDisconnect::new(reason)
PacketLoginOutDisconnectNew(reason) == [name |-> "PacketLoginOutDisconnect", reason |-> reason]

PacketPlayOutDisconnectWriteLoginId(p, buffer) ==
    ComponentWrite(p.reason, buffer \o VarIntWrite(0))

\* protocol/server/play.rs: PacketPlayOutDisconnect(0x17) { reason: Component }
PacketPlayOutDisconnectWrite(p, buffer) == ComponentWrite(p.reason, buffer \o VarIntWrite(23))

\* PacketPlayOutDisconnect::new(reason)
PacketPlayOutDisconnectNew(reason) == [name |-> "PacketPlayOutDisconnect", reason |-> reason]

\* P::pack_read for the reader types used with PacketDecoder::read
PackRead(P, buf, pos) ==
    CASE P = "InHandshake" -> InHandshakeRead(buf, pos)
      [] P = "InStatus" -> InStatusRead(buf, pos)
      [] P = "PacketStatusInPing" -> PacketStatusInPingRead(buf, pos)
      [] P = "PacketStatusInRequest" -> PacketStatusInRequestRead(buf, pos)
      [] P = "PacketHandshakeIn" -> PacketHandshakeInRead(buf, pos)
      [] P = "PacketStatusOutPong" -> PacketStatusOutPongRead(buf, pos)
      [] P = "PacketPlayIn" -> PacketPlayInRead(buf, pos)

\* packet.pack_write(buffer); a stage value delegates to its variant
PackWrite(p, buffer) ==
    CASE p.name = "PacketHandshakeIn" -> PacketHandshakeInWrite(p, buffer)
      [] p.name = "PacketStatusInRequest" -> PacketStatusInRequestWrite(p, buffer)
      [] p.name = "PacketStatusInPing" -> PacketStatusInPingWrite(p, buffer)
      [] p.name = "PacketStatusOutResponse" -> PacketStatusOutResponseWrite(p, buffer)
      [] p.name = "PacketStatusOutPong" -> PacketStatusOutPongWrite(p, buffer)
      [] p.name = "PacketLoginOutDisconnect" -> PacketLoginOutDisconnectWrite(p, buffer)
      [] p.name = "PacketPlayOutDisconnect" -> PacketPlayOutDisconnectWrite(p, buffer)
      [] p.name = "PacketPlayIn" -> PacketPlayInWrite(p, buffer)

(***************************************************************************)
(* AES-128-CFB8 (crate cfb8 over crate aes).  A cipher instance is its key *)
(* and its 16-byte shift register, which starts as the IV.  Per byte: the  *)
(* keystream byte is the first byte of the block cipher applied to the     *)
(* register, the output is input XOR keystream, and the ciphertext byte is *)
(* shifted into the register.  The AES block function is outside this      *)
(* repository; AesBlockFirstByte stands for it as a fixed keyed mixing of  *)
(* the register, which keeps what the framer depends on: the keystream is  *)
(* a function of the key and of the previous 16 ciphertext bytes.          *)
(***************************************************************************)
Xor8(a, b) ==
    ((a + b) % 2) + ((a \div 2 + b \div 2) % 2) * 2
    + ((a \div 4 + b \div 4) % 2) * 4 + ((a \div 8 + b \div 8) % 2) * 8
    + ((a \div 16 + b \div 16) % 2) * 16 + ((a \div 32 + b \div 32) % 2) * 32
    + ((a \div 64 + b \div 64) % 2) * 64 + ((a \div 128 + b \div 128) % 2) * 128

AesBlockFirstByte(key, reg) ==
    (90 + 3 * key[1] + 5 * key[6] + 7 * key[11] + 11 * key[16]
        + 13 * reg[1] + 17 * reg[2] + 19 * reg[3] + 23 * reg[4]
        + 29 * reg[5] + 31 * reg[6] + 37 * reg[7] + 41 * reg[8]
        + 43 * reg[9] + 47 * reg[10] + 53 * reg[11] + 59 * reg[12]
        + 61 * reg[13] + 67 * reg[14] + 71 * reg[15] + 73 * reg[16]) % 256

\* AesEnc::new_from_slices(&key, &key) / AesDec::new_from_slices(&key, &key)
CipherNew(key) == [key |-> key, iv |-> key]

CipherShift(c, ct) == [c EXCEPT !.iv = SubSeq(@, 2, Len(@)) \o <<ct>>]

\* encrypt(self, buf) / decrypt(self, buf): the instance is consumed, the
\* buffer is rewritten in place.  Both operators return the instance as it
\* ends and the buffer.
RECURSIVE Cfb8Encrypt(_, _, _)
Cfb8Encrypt(c, data, i) ==
    IF i > Len(data) THEN [cipher |-> c, data |-> data]
    ELSE Bind(Xor8(data[i], AesBlockFirstByte(c.key, c.iv)), LAMBDA ct :
         Bind(CipherShift(c, ct), LAMBDA c2 :
         Bind([data EXCEPT ![i] = ct], LAMBDA data2 :
             Cfb8Encrypt(c2, data2, i + 1))))

RECURSIVE Cfb8Decrypt(_, _, _)
Cfb8Decrypt(c, data, i) ==
    IF i > Len(data) THEN [cipher |-> c, data |-> data]
    ELSE Bind(Xor8(data[i], AesBlockFirstByte(c.key, c.iv)), LAMBDA pt :
         Bind(CipherShift(c, data[i]), LAMBDA c2 :
         Bind([data EXCEPT ![i] = pt], LAMBDA data2 :
             Cfb8Decrypt(c2, data2, i + 1))))

(***************************************************************************)
(* zlib (crate async_compression).  ZlibCompress produces a well-formed    *)
(* zlib stream for its input: the 2-byte header, one final stored deflate  *)
(* block (LEN, NLEN, data) and the Adler-32 of the data, big-endian.       *)
(* ZlibDecompress accepts exactly such streams.                            *)
(***************************************************************************)
RECURSIVE AdlerA(_, _)
AdlerA(b, n) == IF n = 0 THEN 1 ELSE (AdlerA(b, n - 1) + b[n]) % 65521

RECURSIVE AdlerB(_, _)
AdlerB(b, n) == IF n = 0 THEN 0 ELSE (AdlerB(b, n - 1) + AdlerA(b, n)) % 65521

Adler32(b) == U16Write(AdlerB(b, Len(b))) \o U16Write(AdlerA(b, Len(b)))

ZlibCompress(b) ==
    <<120, 1, 1, Len(b) % 256, Len(b) \div 256,
      255 - (Len(b) % 256), 255 - (Len(b) \div 256)>> \o b \o Adler32(b)

ZlibDecompress(z) ==
    IF Len(z) < 11 THEN RErr("zlib: unexpected end of stream", 0)
    ELSE Bind(z[4] + 256 * z[5], LAMBDA n :
            IF \/ z[1] # 120 \/ z[2] # 1 \/ z[3] # 1
               \/ z[6] # 255 - z[4] \/ z[7] # 255 - z[5]
               \/ Len(z) < 11 + n
            THEN RErr("zlib: corrupt stream", 0)
            ELSE Bind(SubSeq(z, 8, 7 + n), LAMBDA b :
                    IF SubSeq(z, 8 + n, 11 + n) = Adler32(b) THEN ROk(b, 11 + n)
                    ELSE RErr("zlib: checksum mismatch", 0)))

(***************************************************************************)
(* PacketEncoder (network/encode.rs)                                       *)
(***************************************************************************)
EncoderNew ==
    [encryptor |-> None, shared_secret |-> None, staging_buf |-> <<>>,
     compression_threshold |-> None, compression_buf |-> <<>>]

EncoderSetEncryption(e, key) ==
    [e EXCEPT !.encryptor = Some(CipherNew(key)), !.shared_secret = Some(key)]

EncoderSetCompression(e, threshold) ==
    [e EXCEPT !.compression_threshold = Some(threshold)]

\* A variant of EncoderWrite whose length counts the prefix as well.
EncoderWriteCountsPrefix(e, buffer) ==
    [ok |-> TRUE,
     buf |-> buffer \o VarIntWrite(Len(e.staging_buf) + 1) \o e.staging_buf,
     enc |-> e]

\* PacketEncoder::write: the uncompressed envelope
EncoderWrite(e, buffer) ==
    [ok |-> TRUE,
     buf |-> buffer \o VarIntWrite(Len(e.staging_buf)) \o e.staging_buf,
     enc |-> e]

\* PacketEncoder::write_compressed: slice is only measured; what reaches the
\* output is the local buf, which holds the three VarInts.
EncoderWriteCompressed(e, buffer) ==
    Bind(Len(e.staging_buf) >= e.compression_threshold[1], LAMBDA compress :
    Bind(IF compress THEN e.compression_buf \o ZlibCompress(e.staging_buf)
         ELSE e.compression_buf, LAMBDA cbuf :
    Bind(IF compress THEN cbuf ELSE e.staging_buf, LAMBDA slice :
    Bind(IF compress THEN Len(e.staging_buf) ELSE 0, LAMBDA data_len :
    Bind(VarIntWrite(data_len), LAMBDA buf1 :
    Bind(Len(buf1) + Len(slice), LAMBDA packet_size :
        [ok |-> TRUE,
         buf |-> buffer \o buf1 \o VarIntWrite(packet_size) \o VarIntWrite(data_len),
         enc |-> [e EXCEPT !.compression_buf = <<>>]]))))))

\* enc.clone().encrypt(out_buffer): a copy of the stored instance encrypts
\* the whole output buffer; the stored instance is not advanced.
EncoderEncrypt(e, out) ==
    IF e.encryptor # None THEN Cfb8Encrypt(e.encryptor[1], out, 1).data ELSE out

\* PacketEncoder::consume
EncoderConsume(e, out_buffer, packet) ==
    Bind(PackWrite(packet, e.staging_buf), LAMBDA w :
        IF ~w.ok
        THEN [ok |-> FALSE, buf |-> out_buffer, enc |-> [e EXCEPT !.staging_buf = w.buf]]
        ELSE Bind(IF e.compression_threshold # None
                  THEN EncoderWriteCompressed([e EXCEPT !.staging_buf = w.buf], out_buffer)
                  ELSE EncoderWrite([e EXCEPT !.staging_buf = w.buf], out_buffer),
                  LAMBDA r :
                      [ok |-> TRUE,
                       buf |-> EncoderEncrypt(r.enc, r.buf),
                       enc |-> [r.enc EXCEPT !.staging_buf = <<>>]]))

(***************************************************************************)
(* PacketDecoder (network/encode.rs)                                       *)
(***************************************************************************)
DecoderNew ==
    [decryptor |-> None, shared_secret |-> None, staging_buf |-> <<>>,
     compression_threshold |-> None, compression_buf |-> <<>>]

DecoderSetEncryption(d, key) ==
    [d EXCEPT !.decryptor = Some(CipherNew(key)), !.shared_secret = Some(key)]

DecoderSetCompression(d, threshold) ==
    [d EXCEPT !.compression_threshold = Some(threshold)]

\* dec.clone().decrypt(&mut self.staging_buf[..]): a copy of the stored
\* instance decrypts the whole staging buffer in place.
DecoderDecrypt(d, staging) ==
    IF d.decryptor # None THEN Cfb8Decrypt(d.decryptor[1], staging, 1).data ELSE staging

\* PacketDecoder::digest
DecoderDigest(d, packet_bytes) ==
    [d EXCEPT !.staging_buf = DecoderDecrypt(d, @ \o packet_bytes)]

FrameCompleteSigned(len, varint_len, size) == len - varint_len >= size

\* staging_buf.len() - varint_len >= size as usize; a negative size becomes
\* a usize above any buffer length.
FrameComplete(len, varint_len, size) == size >= 0 /\ len - varint_len >= size

\* A variant of ReadConsumed that forgets the length prefix.
ReadConsumedSizeOnly(size, varint_len) == size

\* let read = size as usize + varint_len
ReadConsumed(size, varint_len) == size + varint_len

\* The three outcomes of read: Ok(Some(packet)), Ok(None), Err(err)
DecoderSome(d, packet) == [kind |-> "Some", packet |-> Some(packet), dec |-> d, err |-> ""]

\* A variant of DecoderNone that drops what is staged.
DecoderNoneDropsStaging(d) ==
    [kind |-> "None", packet |-> None, dec |-> [d EXCEPT !.staging_buf = <<>>], err |-> ""]

DecoderNone(d) == [kind |-> "None", packet |-> None, dec |-> d, err |-> ""]

DecoderErrDropsStaging(d, e) ==
    [kind |-> "Err", packet |-> None, dec |-> [d EXCEPT !.staging_buf = <<>>], err |-> e]

DecoderErr(d, e) == [kind |-> "Err", packet |-> None, dec |-> d, err |-> e]

\* read, from P::pack_read on: d already holds the compression buffer the
\* reader may point into.
DecoderReadPacket(d, P, packet, size, varint_len) ==
    IF ~packet.ok THEN DecoderErr(d, packet.err)
    ELSE DecoderSome([d EXCEPT
                         !.staging_buf = Rest(@, ReadConsumed(size, varint_len)),
                         !.compression_buf = <<>>],
                     packet.val)

\* read, compression enabled, on the frame: the inner VarInt, then zlib
\* over the rest of the frame when it is positive.
DecoderReadCompressed(d, P, frame, size, varint_len) ==
    Bind(VarIntRead(frame, 0), LAMBDA data_len :
        IF ~data_len.ok THEN DecoderErr(d, data_len.err)
        ELSE IF data_len.val > 0
        THEN Bind(ZlibDecompress(Rest(frame, data_len.pos)), LAMBDA z :
                IF ~z.ok THEN DecoderErr(d, z.err)
                ELSE Bind([d EXCEPT !.compression_buf = @ \o z.val], LAMBDA d2 :
                        DecoderReadPacket(d2, P, PackRead(P, d2.compression_buf, 0),
                                          size, varint_len)))
        ELSE DecoderReadPacket(d, P, PackRead(P, frame, data_len.pos),
                               size, varint_len))

\* read, on a complete frame
DecoderReadFrame(d, P, size, varint_len) ==
    Bind(SubSeq(d.staging_buf, varint_len + 1, varint_len + size), LAMBDA frame :
        IF d.compression_threshold # None
        THEN DecoderReadCompressed(d, P, frame, size, varint_len)
        ELSE DecoderReadPacket(d, P, PackRead(P, frame, 0), size, varint_len))

\* PacketDecoder::read::<P>
DecoderRead(d, P) ==
    Bind(VarIntRead(d.staging_buf, 0), LAMBDA len :
        IF ~len.ok THEN DecoderNone(d)
        ELSE IF ~FrameComplete(Len(d.staging_buf), len.pos, len.val) THEN DecoderNone(d)
        ELSE DecoderReadFrame(d, P, len.val, len.pos))

(***************************************************************************)
(* The framer at work.  One direction of one connection: the sender's      *)
(* OutgoingPacketChannel::send_packet frames packets onto the socket, the  *)
(* receiver's InboundPacketChannel::read_packet loop reads the socket in   *)
(* chunks, digests them and calls read.                                    *)
(***************************************************************************)
VARIABLES
    enc,          \* OutgoingPacketChannel.enc
    outBuffer,    \* OutgoingPacketChannel.buffer
    sendPc,       \* "ready", or "failed" once send_packet returned Err
    wire,         \* bytes written to the socket and not yet read from it
    dec,          \* InboundPacketChannel.dec
    readType,     \* the type P the receiver reads: read_packet::<P>
    recvPc,       \* read_packet's position: "read", "recv", "failed"
    sentPackets,  \* history: packets passed to consume, in order
    peerFrames,   \* history: byte strings a foreign peer wrote, in order
    txBytes,      \* history: every byte written to the socket
    rxBytes,      \* history: every byte passed to digest
    recvd,        \* history: packets returned by read, in order
    lastRead,     \* history: [kind, err] of the latest read
    lastStep,     \* history: the latest operation
    lastFrame,    \* history: the bytes the latest consume appended
    chunking,     \* history: about the digest calls so far, [bytewise, partial, keyed]
    state,        \* ClientConnection.state
    connPc,       \* do_initial_handle's position
    codec,        \* a value, the buffer it is written to and what is read back
    config,       \* ClientConnection.config and runtime: [max_players, motd, favicon]
    timer,        \* [waited, elapsed]: seconds since the socket read began, since the start
    players,      \* PlayerCount: [count, max]
    tasks,        \* the callers of PlayerCount, each [pc, seen, round]
    tally,        \* history: [added, removed, refused, got] of PlayerCount's calls
    inbound,      \* the bounded flume channel of decoded packets
    outgoing,     \* the unbounded flume channel of packets to send
    writerPc,     \* OutgoingPacketChannel::start's position
    appRecvd,     \* history: packets the application received, in order
    appSent,      \* history: packets the application sent into the channel, in order
    socket,       \* the write half: "open", or "broken" when writes fail
    listener,     \* NetworkListener::network_loop: [running, accepted, failed]
    conns,        \* the tasks spawned by ClientConnection::start, one record each
    proxy,        \* PacketProxy: [staging, start_index], with what its calls returned
    ident         \* a string and what Identifier::parse returned for it

vars == <<enc, outBuffer, sendPc, wire, dec, readType, recvPc, sentPackets,
          peerFrames, txBytes, rxBytes, recvd, lastRead, lastStep, lastFrame,
          chunking, state, connPc, codec, config, timer, players, tasks, tally,
          inbound, outgoing, writerPc, appRecvd, appSent, socket, listener, conns,
          proxy, ident>>

admissionVars == <<players, tasks, tally>>

channelVars == <<inbound, outgoing, writerPc, appRecvd, appSent, socket>>

serverVars == <<listener, conns, proxy, ident>>

idleVars == <<config, serverVars, timer, admissionVars, channelVars>>

MaxPackets == 2

MaxPeerWrites == 3

MaxKeyedDigests == 4

\* InboundPacketChannel.buffer: [u8; 1024]
ScratchSize == 1024

KeyA == [i \in 1..16 |-> (i * 17 + 3) % 256]

Thresholds == {8, 9}

HandshakePackets ==
    {[name |-> "PacketHandshakeIn", protocol_version |-> 759, server_address |-> a,
      server_port |-> 25565, next_state |-> n] :
        a \in {<<>>, <<108, 104>>}, n \in {"Status", "Login"}}

StatusPackets ==
    {[name |-> "PacketStatusInRequest"]} \cup
    {[name |-> "PacketStatusInPing", payload |-> l] :
        l \in {<<0, 0, 0, 0>>, <<258, 772, 1286, 1800>>}}

PacketsOf(P) == IF P = "InHandshake" THEN HandshakePackets ELSE StatusPackets

InitHistory ==
    /\ sentPackets = <<>>
    /\ peerFrames = <<>>
    /\ txBytes = <<>>
    /\ rxBytes = <<>>
    /\ recvd = <<>>
    /\ lastRead = [kind |-> "", err |-> ""]
    /\ lastStep = "init"
    /\ lastFrame = <<>>
    /\ chunking = [bytewise |-> TRUE, partial |-> FALSE, keyed |-> 0]

\* the framer on its own: no connection handler runs
NoConnection == state = "Handshake" /\ connPc = "unstarted"

\* a u32 as two 16-bit limbs, the upper first
U32(n) == <<n \div 65536, n % 65536>>

\* u + 1 and u - 1 in 32 bits, wrapping
U32Inc(u) == IF u[2] = 65535 THEN <<(u[1] + 1) % 65536, 0>> ELSE <<u[1], u[2] + 1>>

U32Dec(u) == IF u[2] = 0 THEN <<(u[1] + 65535) % 65536, 65535>> ELSE <<u[1], u[2] - 1>>

U32Gt(a, b) == a[1] > b[1] \/ (a[1] = b[1] /\ a[2] > b[2])

\* SoulflameConfiguration::default, with RuntimeConfiguration.favicon: the
\* motd "A Soulflame server." and a data URI "data:image/png;base64,AAAA"
DefaultConfig ==
    [max_players |-> U32(20),
     motd |-> <<65, 32, 83, 111, 117, 108, 102, 108, 97, 109, 101, 32, 115, 101, 114,
                118, 101, 114, 46>>,
     favicon |-> <<100, 97, 116, 97, 58, 105, 109, 97, 103, 101, 47, 112, 110, 103, 59,
                   98, 97, 115, 101, 54, 52, 44, 65, 65, 65, 65>>]

\* PlayerCount::new
PlayerCountNew(max) == [count |-> U32(0), max |-> max]

\* flume::bounded(cap) and flume::unbounded(): nothing queued, one sender
\* and the receiver alive
FlumeBounded(cap) ==
    [queue |-> <<>>, cap |-> Some(cap), senders |-> 1, receiver |-> TRUE, waiting |-> <<>>]

FlumeUnbounded ==
    [queue |-> <<>>, cap |-> None, senders |-> 1, receiver |-> TRUE, waiting |-> <<>>]

\* the capacity of the channel of received packets
InboundCapacity == 32

\* no caller of PlayerCount
IdleAdmission ==
    /\ players = PlayerCountNew(DefaultConfig.max_players)
    /\ tasks = <<>>
    /\ tally = [added |-> 0, removed |-> 0, refused |-> 0, got |-> None]

\* the channels as ClientConnection::new makes them, their loops not started
IdleChannels ==
    /\ inbound = FlumeBounded(InboundCapacity)
    /\ outgoing = FlumeUnbounded
    /\ writerPc = "unstarted"
    /\ appRecvd = <<>>
    /\ appSent = <<>>
    /\ socket = "open"

IdleTimer == timer = [waited |-> 0, elapsed |-> 0]

\* PacketProxy::new
PacketProxyNew == [staging |-> <<>>, start_index |-> 0]

\* no listener, no spawned task, and no call of the proxy or of the parser
IdleServer ==
    /\ listener = [running |-> FALSE, accepted |-> 0, failed |-> 0]
    /\ conns = <<>>
    /\ proxy = [proxy |-> PacketProxyNew, last |-> None, out |-> <<>>]
    /\ ident = None

\* the default configuration, and the parts of the server that take no step
Idle ==
    /\ config = DefaultConfig
    /\ IdleServer
    /\ IdleTimer
    /\ IdleAdmission
    /\ IdleChannels

\* Both ends constructed, then configured alike before any traffic.
EncoderConfigured(key, threshold) ==
    Bind(IF key # None THEN EncoderSetEncryption(EncoderNew, key[1]) ELSE EncoderNew,
         LAMBDA e : IF threshold # None THEN EncoderSetCompression(e, threshold[1]) ELSE e)

DecoderConfigured(key, threshold) ==
    Bind(IF key # None THEN DecoderSetEncryption(DecoderNew, key[1]) ELSE DecoderNew,
         LAMBDA d : IF threshold # None THEN DecoderSetCompression(d, threshold[1]) ELSE d)

InitFramer(keys, thresholds) ==
    /\ \E key \in keys :
       \E threshold \in thresholds :
          /\ enc = EncoderConfigured(key, threshold)
          /\ dec = DecoderConfigured(key, threshold)
    /\ outBuffer = <<>>
    /\ sendPc = "ready"
    /\ wire = <<>>
    /\ readType \in {"InHandshake", "InStatus"}
    /\ recvPc = "read"
    /\ InitHistory
    /\ NoConnection
    /\ codec = None
    /\ Idle

\* OutgoingPacketChannel::send_packet: consume into the buffer, write_all
\* to the socket, clear the buffer.
SendPacket(packet) ==
    /\ sendPc = "ready"
    /\ Len(sentPackets) < MaxPackets
    /\ \E r \in {EncoderConsume(enc, outBuffer, packet)} :
          /\ enc' = r.enc
          /\ outBuffer' = IF r.ok THEN <<>> ELSE r.buf
          /\ sendPc' = IF r.ok THEN "ready" ELSE "failed"
          /\ wire' = IF r.ok THEN wire \o r.buf ELSE wire
          /\ txBytes' = IF r.ok THEN txBytes \o r.buf ELSE txBytes
          /\ lastFrame' = IF r.ok THEN Rest(r.buf, Len(outBuffer)) ELSE <<>>
    /\ sentPackets' = Append(sentPackets, packet)
    /\ lastStep' = "send"
    /\ UNCHANGED <<dec, readType, recvPc, peerFrames, rxBytes, recvd, lastRead,
                   chunking, state, connPc, codec, idleVars>>

DigestKeepsTimer(n) ==
    /\ recvPc = "recv"
    /\ dec' = DecoderDigest(dec, SubSeq(wire, 1, n))
    /\ wire' = Rest(wire, n)
    /\ rxBytes' = rxBytes \o SubSeq(wire, 1, n)
    /\ recvPc' = "read"
    /\ chunking' = [chunking EXCEPT
           !.bytewise = @ /\ n = 1,
           !.keyed = IF dec.decryptor # None THEN @ + 1 ELSE @]
    /\ lastStep' = "digest"
    /\ UNCHANGED <<enc, outBuffer, sendPc, readType, sentPackets, peerFrames,
                   txBytes, recvd, lastRead, lastFrame, state, connPc, codec, idleVars>>

\* read_packet after read returned None: one socket read of n bytes into
\* the scratch buffer, then digest of these bytes.
Digest(n) ==
    /\ recvPc = "recv"
    /\ dec' = DecoderDigest(dec, SubSeq(wire, 1, n))
    /\ wire' = Rest(wire, n)
    /\ rxBytes' = rxBytes \o SubSeq(wire, 1, n)
    /\ recvPc' = "read"
    /\ chunking' = [chunking EXCEPT
           !.bytewise = @ /\ n = 1,
           !.keyed = IF dec.decryptor # None THEN @ + 1 ELSE @]
    /\ timer' = [timer EXCEPT !.waited = 0]
    /\ lastStep' = "digest"
    /\ UNCHANGED <<enc, outBuffer, sendPc, readType, sentPackets, peerFrames,
                   txBytes, recvd, lastRead, lastFrame, state, connPc, codec,
                   config, serverVars, admissionVars, channelVars>>

\* read_packet's call of dec.read::<P>(): Some returns the packet (and the
\* caller reads again), None goes on to the socket, Err ends read_packet.
Read ==
    /\ recvPc = "read"
    /\ \E r \in {DecoderRead(dec, readType)} :
          /\ dec' = r.dec
          /\ recvd' = IF r.kind = "Some" THEN Append(recvd, r.packet[1]) ELSE recvd
          /\ recvPc' = CASE r.kind = "Some" -> "read"
                         [] r.kind = "None" -> "recv"
                         [] r.kind = "Err" -> "failed"
          /\ lastRead' = [kind |-> r.kind, err |-> r.err]
          /\ chunking' = [chunking EXCEPT
                 !.partial = @ \/ (r.kind = "None" /\ dec.staging_buf # <<>>)]
    /\ lastStep' = "read"
    /\ UNCHANGED <<enc, outBuffer, sendPc, wire, readType, sentPackets, peerFrames,
                   txBytes, rxBytes, lastFrame, state, connPc, codec, idleVars>>

\* No key: the uncompressed envelope and the compressed envelope.
Init == InitFramer({None}, {None} \cup {Some(t) : t \in Thresholds})

Next ==
    \/ \E packet \in PacketsOf(readType) : SendPacket(packet)
    \/ \E n \in 1..Min(Len(wire), ScratchSize) : Digest(n)
    \/ Read

Spec == Init /\ [][Next]_vars

\* The same key on both ends, no compression.  The digest calls explored
\* are limited to MaxKeyedDigests.
InitKeyed == InitFramer({Some(KeyA)}, {None})

NextKeyed ==
    \/ \E packet \in PacketsOf(readType) : SendPacket(packet)
    \/ \E n \in 1..Min(Len(wire), ScratchSize) :
           chunking.keyed < MaxKeyedDigests /\ Digest(n)
    \/ Read

SpecKeyed == InitKeyed /\ [][NextKeyed]_vars

(***************************************************************************)
(* A foreign peer.  The bytes that reach reader.read are whatever the      *)
(* other end of the socket wrote; here it writes hand-made byte strings    *)
(* instead of the output of a PacketEncoder.                               *)
(***************************************************************************)
\* a length prefix of six continuation bytes and a zero
TooLongPrefix == <<128, 128, 128, 128, 128, 128, 0>>

\* one packet of the stage P, serialized
SamplePacket(P) ==
    IF P = "InHandshake"
    THEN [name |-> "PacketHandshakeIn", protocol_version |-> 759,
          server_address |-> <<108, 104>>, server_port |-> 25565,
          next_state |-> "Status"]
    ELSE [name |-> "PacketStatusInRequest"]

SampleBody(P) == PackWrite(SamplePacket(P), <<>>).buf

\* a frame whose length covers a serialized packet and one more byte
TrailingFrame(P, compressed) ==
    Bind(SampleBody(P) \o <<255>>, LAMBDA body :
        IF compressed THEN VarIntWrite(1 + Len(body)) \o VarIntWrite(0) \o body
        ELSE VarIntWrite(Len(body)) \o body)

\* a compressed frame whose data_len is one more than what its zlib stream
\* inflates to
MismatchFrame(P) ==
    Bind(SampleBody(P), LAMBDA body :
    Bind(VarIntWrite(Len(body) + 1) \o ZlibCompress(body), LAMBDA inner :
        VarIntWrite(Len(inner)) \o inner))

PeerFrames(P, compressed) ==
    {TooLongPrefix, TrailingFrame(P, compressed)}
        \cup (IF compressed THEN {MismatchFrame(P)} ELSE {})

\* The peer writes one byte string to the socket.
PeerWrite(f) ==
    /\ Len(peerFrames) < MaxPeerWrites
    /\ wire' = wire \o f
    /\ peerFrames' = Append(peerFrames, f)
    /\ lastStep' = "peer"
    /\ UNCHANGED <<enc, outBuffer, sendPc, dec, readType, recvPc, sentPackets,
                   txBytes, rxBytes, recvd, lastRead, lastFrame, chunking,
                   state, connPc, codec, idleVars>>

InitPeer == Init

NextPeer ==
    \/ \E f \in PeerFrames(readType, dec.compression_threshold # None) : PeerWrite(f)
    \/ \E n \in 1..Min(Len(wire), ScratchSize) : Digest(n)
    \/ Read

SpecPeer == InitPeer /\ [][NextPeer]_vars

(***************************************************************************)
(* More wire primitives (net_io.rs): VarLong, bool, Option<T>, Vec<T>.     *)
(* An i64 is four 16-bit limbs, most significant first, in two's           *)
(* complement.                                                             *)
(***************************************************************************)
I64Zero == <<0, 0, 0, 0>>

\* v >> 7 on the u64
ShrU64By7(l) ==
    <<l[1] \div 128,
      (l[2] \div 128) + (l[1] % 128) * 512,
      (l[3] \div 128) + (l[2] % 128) * 512,
      (l[4] \div 128) + (l[3] % 128) * 512>>

RECURSIVE Or16(_, _, _)
Or16(a, b, i) ==
    IF i > 15 THEN 0
    ELSE (IF (a \div (2 ^ i)) % 2 = 1 \/ (b \div (2 ^ i)) % 2 = 1 THEN 2 ^ i ELSE 0)
         + Or16(a, b, i + 1)

\* a | b on i64
Or64(a, b) == [i \in 1..4 |-> Or16(a[i], b[i], 0)]

\* value.overflowing_shl(sh).0 on i64 for a value below 128: the shift
\* amount is taken modulo 64 and bits shifted past bit 63 are lost.
Shl64(value, shift) ==
    Bind(shift % 64, LAMBDA sh :
    Bind(value * (2 ^ (sh % 16)), LAMBDA w :
        [i \in 1..4 |->
            IF 4 - i = sh \div 16 THEN w % 65536
            ELSE IF 4 - i = (sh \div 16) + 1 THEN w \div 65536
            ELSE 0]))

RECURSIVE VarLongWrite(_)
VarLongWrite(l) ==
    Bind(ShrU64By7(l), LAMBDA rest :
        IF rest # I64Zero THEN <<(l[4] % 128) + 128>> \o VarLongWrite(rest)
        ELSE <<l[4] % 128>>)

VarLongSizeLimit == 10

RECURSIVE VarLongReadLoop(_, _, _, _)
VarLongReadLoop(buf, pos, size, v) ==
    IF pos >= Len(buf) THEN RErr("eof", pos)
    ELSE Bind(Or64(v, Shl64(buf[pos + 1] % 128, 7 * size)), LAMBDA v2 :
            IF size + 1 > VarLongSizeLimit THEN RErr("VarLong too long", pos + 1)
            ELSE IF buf[pos + 1] \div 128 = 0 THEN ROk(v2, pos + 1)
            ELSE VarLongReadLoop(buf, pos + 1, size + 1, v2))

VarLongRead(buf, pos) == VarLongReadLoop(buf, pos, 0, I64Zero)

U8Read(buf, pos) ==
    IF pos + 1 > Len(buf) THEN RErr("eof", pos) ELSE ROk(buf[pos + 1], pos + 1)

BoolWrite(b) == <<IF b THEN 1 ELSE 0>>

BoolRead(buf, pos) == Try(U8Read(buf, pos), LAMBDA r : ROk(r.val = 1, r.pos))

\* T::pack_read / v.pack_write for the element types T used under
\* Option<T> and Vec<T>
ElemRead(T, buf, pos) ==
    CASE T = "i64" -> I64Read(buf, pos)
      [] T = "String" -> StringRead(buf, pos)
      [] T = "u8" -> U8Read(buf, pos)

ElemWrite(T, v, buffer) ==
    CASE T = "i64" -> WOk(buffer \o I64Write(v))
      [] T = "String" -> StringWrite(v, buffer)
      [] T = "u8" -> WOk(buffer \o <<v>>)

\* impl PacketWrite for Option<T>
OptionWrite(T, o, buffer) ==
    IF o # None THEN ElemWrite(T, o[1], buffer \o <<1>>) ELSE WOk(buffer \o <<0>>)

\* impl PacketRead for Option<T>: tag 0 is None, every other tag reads T
OptionRead(T, buf, pos) ==
    Try(U8Read(buf, pos), LAMBDA tag :
        IF tag.val = 0 THEN ROk(None, tag.pos)
        ELSE Try(ElemRead(T, buf, tag.pos), LAMBDA v : ROk(Some(v.val), v.pos)))

MAX_ARRAY_SIZE == 1048576

RECURSIVE VecWriteLoop(_, _, _, _)
VecWriteLoop(T, vals, i, buffer) ==
    IF i > Len(vals) THEN WOk(buffer)
    ELSE Try(ElemWrite(T, vals[i], buffer), LAMBDA w : VecWriteLoop(T, vals, i + 1, w.buf))

\* A variant of VecWrite that leaves out the size.
VecWriteNoSize(T, vals, buffer) == VecWriteLoop(T, vals, 1, buffer)

\* impl PacketWrite for Vec<T>
VecWrite(T, vals, buffer) ==
    IF Len(vals) > MAX_ARRAY_SIZE THEN WErr(buffer)
    ELSE VecWriteLoop(T, vals, 1, buffer \o VarIntWrite(Len(vals)))

RECURSIVE VecReadLoop(_, _, _, _, _)
VecReadLoop(T, buf, pos, left, vals) ==
    IF left = 0 THEN ROk(vals, pos)
    ELSE Try(ElemRead(T, buf, pos), LAMBDA v :
            VecReadLoop(T, buf, v.pos, left - 1, Append(vals, v.val)))

\* impl PacketRead for Vec<T>; the size is the VarInt as usize
VecRead(T, buf, pos) ==
    Try(VarIntRead(buf, pos), LAMBDA sz :
        IF sz.val < 0 \/ sz.val > MAX_ARRAY_SIZE
        THEN RErr("Tried to read array larger than max size", sz.pos)
        ELSE VecReadLoop(T, buf, sz.pos, sz.val, <<>>))

(***************************************************************************)
(* The declarations of staged_packets!: Packet::packet_id of each struct   *)
(* and the structs of each stage.                                          *)
(***************************************************************************)
PacketId(name) ==
    CASE name = "PacketHandshakeIn" -> 0
      [] name = "PacketStatusInRequest" -> 0
      [] name = "PacketStatusInPing" -> 1
      [] name = "PacketStatusOutResponse" -> 0
      [] name = "PacketStatusOutPong" -> 1
      [] name = "PacketLoginOutDisconnect" -> 0
      [] name = "PacketPlayOutDisconnect" -> 23

StagePackets(P) ==
    CASE P = "InHandshake" -> {"PacketHandshakeIn"}
      [] P = "InStatus" -> {"PacketStatusInRequest", "PacketStatusInPing"}

(***************************************************************************)
(* The wire codec on its own: a value is written with pack_write into a    *)
(* buffer, and pack_read is run on a cursor over the buffer; or pack_read  *)
(* is run on bytes that no writer produced.                                *)
(***************************************************************************)
\* T::pack_read for the types T exercised here; the stages and packet
\* structs go through PackRead
WireRead(T, buf, pos) ==
    CASE T = "VarInt" -> VarIntRead(buf, pos)
      [] T = "VarLong" -> VarLongRead(buf, pos)
      [] T = "String" -> StringRead(buf, pos)
      [] T = "bool" -> BoolRead(buf, pos)
      [] T = "Vec<String>" -> VecRead("String", buf, pos)
      [] T = "Option<i64>" -> OptionRead("i64", buf, pos)
      [] OTHER -> PackRead(T, buf, pos)

\* v.pack_write(buffer) for v of type T
WireWrite(T, v, buffer) ==
    CASE T = "VarInt" -> WOk(buffer \o VarIntWrite(v))
      [] T = "VarLong" -> WOk(buffer \o VarLongWrite(v))
      [] T = "String" -> StringWrite(v, buffer)
      [] T = "bool" -> WOk(buffer \o BoolWrite(v))
      [] T = "Vec<String>" -> VecWrite("String", v, buffer)
      [] T = "Option<i64>" -> OptionWrite("i64", v, buffer)
      [] OTHER -> PackWrite(v, buffer)

\* VarInt(pub i32): the bits below the sign bit
I32ValueBits == 31

MaxVecLen == 2

\* i32 values: zero, the powers of two, their predecessors, their
\* negations and both ends of the range
VarIntValues ==
    {2 ^ k : k \in 0..(I32ValueBits - 1)} \cup {2 ^ k - 1 : k \in 0..(I32ValueBits - 1)}
        \cup {-(2 ^ k) : k \in 0..(I32ValueBits - 1)}
        \cup {759, 25565, 2147483647, MinI32, MinI32 + 1}

\* i64 values, as limbs
VarLongValues == [1..4 -> {0, 128, 32768, 65535}]

\* n bytes of "a"
Ascii(n) == [i \in 1..n |-> 97]

\* "Test", "é", "€", an emoji, and strings around the VarInt and the
\* String size boundaries
StringValues ==
    {Ascii(n) : n \in {0, 1, 127, 128, MAX_STRING_SIZE - 1, MAX_STRING_SIZE,
                       MAX_STRING_SIZE + 1}}
        \cup {<<84, 101, 115, 116>>, <<195, 169>>, <<226, 130, 172>>,
              <<240, 159, 152, 128>>}

ShortStrings == {<<>>, <<97>>, <<195, 169>>}

\* vec!["string1", "string2", "string3"] of tests.rs and the short vectors
VecStringValues ==
    {<<<<115, 116, 114, 105, 110, 103, 49>>, <<115, 116, 114, 105, 110, 103, 50>>,
       <<115, 116, 114, 105, 110, 103, 51>>>>}
        \cup UNION {[1..n -> ShortStrings] : n \in 0..MaxVecLen}

OptionValues == {None} \cup {Some(l) : l \in {I64Zero, <<258, 772, 1286, 1800>>}}

\* the packet structs, each under its own type
StructValues == HandshakePackets \cup StatusPackets

\* byte strings of k continuation bytes, closed or not by a final byte
CraftedVarNum(limit) ==
    {[i \in 1..k |-> c] \o last :
        k \in 0..(limit + 1), c \in {128, 255}, last \in {<<>>, <<0>>, <<1>>, <<127>>}}

\* a String whose length prefix is above the cap, or negative
CraftedString ==
    {VarIntWrite(n) \o <<97>> : n \in {MAX_STRING_SIZE + 1, 65536, 2147483647, -1, MinI32}}
        \cup {VarIntWrite(1) \o <<97>>, VarIntWrite(2) \o <<97>>, VarIntWrite(1) \o <<128>>}

\* an Option<i64> under every kind of tag byte
CraftedOption ==
    {<<tag>> \o I64Write(l) : tag \in {0, 1, 2, 128, 255}, l \in {<<258, 772, 1286, 1800>>}}
        \cup {<<>>, <<1>>}

\* a packet id and a body, for a stage
CraftedStage ==
    {VarIntWrite(id) \o body :
        id \in {0, 1, 2, 127, -1},
        body \in {<<>>, I64Write(<<258, 772, 1286, 1800>>), Rest(SampleBody("InHandshake"), 1),
                  VarIntWrite(759) \o VarIntWrite(0) \o U16Write(25565) \o VarIntWrite(3)}}

Prefixes == {<<>>, <<255>>}

\* a value of type T, to be written after what the buffer holds
CodecValue(T, v, prefix) ==
    [T |-> T, value |-> Some(v), buffer |-> prefix, start |-> Len(prefix),
     wrote |-> None, read |-> None]

\* bytes from outside, to be read as a T
CodecBytes(T, bytes, prefix) ==
    [T |-> T, value |-> None, buffer |-> prefix \o bytes, start |-> Len(prefix),
     wrote |-> None, read |-> None]

\* a PacketEncoder, a PacketDecoder and the channels, constructed and idle
IdleFramer ==
    /\ enc = EncoderNew
    /\ dec = DecoderNew
    /\ outBuffer = <<>>
    /\ sendPc = "ready"
    /\ wire = <<>>
    /\ readType = "InHandshake"
    /\ recvPc = "read"
    /\ InitHistory

framerVars ==
    <<enc, outBuffer, sendPc, wire, dec, readType, recvPc, sentPackets, peerFrames,
      txBytes, rxBytes, recvd, lastRead, lastStep, lastFrame, chunking>>

InitCodec ==
    /\ IdleFramer
    /\ NoConnection
    /\ Idle
    /\ \E prefix \in Prefixes :
          \/ \E v \in VarIntValues : codec = CodecValue("VarInt", v, prefix)
          \/ \E v \in VarLongValues : codec = CodecValue("VarLong", v, prefix)
          \/ \E v \in StringValues : codec = CodecValue("String", v, prefix)
          \/ \E v \in BOOLEAN : codec = CodecValue("bool", v, prefix)
          \/ \E v \in VecStringValues : codec = CodecValue("Vec<String>", v, prefix)
          \/ \E v \in OptionValues : codec = CodecValue("Option<i64>", v, prefix)
          \/ \E v \in StructValues : codec = CodecValue(v.name, v, prefix)
          \/ \E P \in {"InHandshake", "InStatus"} :
                \E v \in PacketsOf(P) : codec = CodecValue(P, v, prefix)
          \/ \E b \in CraftedVarNum(VarIntSizeLimit) : codec = CodecBytes("VarInt", b, prefix)
          \/ \E b \in CraftedVarNum(VarLongSizeLimit) : codec = CodecBytes("VarLong", b, prefix)
          \/ \E b \in CraftedString : codec = CodecBytes("String", b, prefix)
          \/ \E b \in CraftedOption : codec = CodecBytes("Option<i64>", b, prefix)
          \/ \E P \in {"InHandshake", "InStatus"} :
                \E b \in CraftedStage : codec = CodecBytes(P, b, prefix)

\* value.pack_write(&mut buffer)
Encode ==
    /\ codec.value # None
    /\ codec.wrote = None
    /\ \E w \in {WireWrite(codec.T, codec.value[1], codec.buffer)} :
          codec' = [codec EXCEPT !.buffer = w.buf, !.wrote = Some(w.ok)]
    /\ UNCHANGED <<framerVars, state, connPc, idleVars>>

\* T::pack_read(&mut Cursor::new(&buffer)), the cursor standing where the
\* value starts
Decode ==
    /\ codec.read = None
    /\ codec.value # None => codec.wrote = Some(TRUE)
    /\ codec' = [codec EXCEPT !.read = Some(WireRead(codec.T, codec.buffer, codec.start))]
    /\ UNCHANGED <<framerVars, state, connPc, idleVars>>

NextCodec == Encode \/ Decode

SpecCodec == InitCodec /\ [][NextCodec]_vars

(***************************************************************************)
(* ClientConnection (network/client.rs): the handler of one connection.    *)
(* The client is the peer that writes to the socket; what the server       *)
(* sends is kept in sentPackets and txBytes.                               *)
(***************************************************************************)
\* `u as i32` of a u32: the same 32 bits, read as two's complement
AsI32(u) == IF u[1] >= 32768 THEN (u[1] - 65536) * 65536 + u[2] ELSE u[1] * 65536 + u[2]

\* the StatusResponse do_initial_handle builds from config and runtime
StatusResponseOf(cfg) ==
    StatusResponseNew(ServerVersionNew(<<76, 97, 116, 101, 115, 116>>, 759),
                      ServerPlayersNew(AsI32(cfg.max_players), 0, <<>>),
                      Lobster(cfg.motd), cfg.favicon)

\* lobster("<red>Logging in is not yet supported!") as JSON, kept as
\* opaque bytes
LoginRefusedJson == <<34, 110, 111, 34>>

\* the type each read_packet::<P> of do_initial_handle asks for
ReadTypeAt(pc) ==
    CASE pc = "handshake" -> "InHandshake"
      [] pc = "request" -> "InStatus"
      [] pc = "ping" -> "PacketStatusInPing"
      [] OTHER -> "PacketStatusInPing"

DisconnectSilently(st, reason) == None

\* disconnect(reason) in the state st: the packet it passes to send_packet,
\* or None where it bails; do_initial_handle calls it in Login
Disconnect(st, reason) ==
    CASE st = "Login" -> Some(PacketLoginOutDisconnectNew(reason))
      [] st = "Play" -> Some(PacketPlayOutDisconnectNew(reason))
      [] OTHER -> None

OnPacketResetsState(pc, st, packet) ==
    CASE pc = "handshake" /\ packet.next_state = "Status" ->
             [state |-> "Status", send |-> None, next |-> "request"]
      [] pc = "handshake" /\ packet.next_state = "Login" ->
             [state |-> "Login", send |-> Disconnect("Login", LoginRefusedJson),
              next |-> "done"]
      [] pc = "request" ->
             [state |-> st, send |-> Some(PacketStatusOutResponseNew(StatusResponseOf(config))),
              next |-> "ping"]
      [] pc = "ping" ->
             [state |-> "Handshake", send |-> Some(PacketStatusOutPongNew(packet.payload)),
              next |-> "done"]

\* do_initial_handle from the packet that the read_packet at pc returned
\* up to the next read_packet or the return: the state it sets, the packet
\* it sends and where it goes on
OnPacket(pc, st, packet) ==
    CASE pc = "handshake" /\ packet.next_state = "Status" ->
             [state |-> "Status", send |-> None, next |-> "request"]
      [] pc = "handshake" /\ packet.next_state = "Login" ->
             [state |-> "Login", send |-> Disconnect("Login", LoginRefusedJson),
              next |-> "done"]
      [] pc = "request" ->
             [state |-> st, send |-> Some(PacketStatusOutResponseNew(StatusResponseOf(config))),
              next |-> "ping"]
      [] pc = "ping" ->
             [state |-> st, send |-> Some(PacketStatusOutPongNew(packet.payload)),
              next |-> "done"]

OnErrorAlwaysFails(pc) == "failed"

\* read_packet returned Err: `?` ends the handler, except at the ping,
\* where the error is logged and the handler returns Ok
OnError(pc) == IF pc = "ping" THEN "done" ELSE "failed"

Awaiting == {"handshake", "request", "ping"}

DropConnectionRemoves(p) == [p EXCEPT !.count = U32Dec(@)]

\* the handler returns and start drops the ClientConnection, and with it
\* its clone of the PlayerCount: the handler has made no call on
\* self.players, and PlayerCount has no Drop of its own
DropConnection(p) == p

\* the handler has returned
Closed == connPc \in {"done", "failed"}

\* ClientConnection::new
InitConn ==
    /\ IdleFramer
    /\ state = "Handshake"
    /\ connPc = "handshake"
    /\ codec = None
    /\ Idle

\* what a client writes: a handshake for Status, for Login and with the
\* next_state 3, the first bytes of a handshake, a frame under the id 5, a
\* status request and a ping
HandshakeFrame(next_state) ==
    Bind(VarIntWrite(0) \o VarIntWrite(759) \o StringWrite(<<108, 104>>, <<>>).buf
             \o U16Write(25565) \o VarIntWrite(next_state),
         LAMBDA body : VarIntWrite(Len(body)) \o body)

TruncatedFrame == SubSeq(HandshakeFrame(1), 1, 4)

UnknownIdFrame == <<1, 5>>

RequestFrame == <<1, 0>>

PingPayload == <<258, 772, 1286, 1800>>

PingFrame == <<9, 1>> \o I64Write(PingPayload)

ClientFrames ==
    {HandshakeFrame(n) : n \in 1..3}
        \cup {TruncatedFrame, UnknownIdFrame, RequestFrame, PingFrame}

\* read_packet's call of dec.read::<P>() and, when it returns a packet,
\* the handler up to its next read_packet, send_packet included
HandleRead ==
    /\ recvPc = "read"
    /\ connPc \in Awaiting
    /\ \E r \in {DecoderRead(dec, readType)} :
       \E h \in {IF r.kind = "Some" THEN OnPacket(connPc, state, r.packet[1])
                 ELSE [state |-> state, send |-> None,
                       next |-> IF r.kind = "None" THEN connPc ELSE OnError(connPc)]} :
       \E s \in {IF h.send # None THEN EncoderConsume(enc, outBuffer, h.send[1])
                 ELSE [ok |-> TRUE, buf |-> <<>>, enc |-> enc]} :
       \E next \in {IF s.ok THEN h.next ELSE "failed"} :
          /\ dec' = r.dec
          /\ recvd' = IF r.kind = "Some" THEN Append(recvd, r.packet[1]) ELSE recvd
          /\ lastRead' = [kind |-> r.kind, err |-> r.err]
          /\ chunking' = [chunking EXCEPT
                 !.partial = @ \/ (r.kind = "None" /\ dec.staging_buf # <<>>)]
          /\ state' = h.state
          /\ connPc' = next
          /\ readType' = ReadTypeAt(next)
          /\ recvPc' = IF next \notin Awaiting THEN "closed"
                       ELSE IF r.kind = "None" THEN "recv" ELSE "read"
          /\ enc' = s.enc
          /\ outBuffer' = IF s.ok THEN <<>> ELSE s.buf
          /\ sendPc' = IF s.ok THEN "ready" ELSE "failed"
          /\ txBytes' = IF s.ok THEN txBytes \o s.buf ELSE txBytes
          /\ lastFrame' = IF h.send # None /\ s.ok THEN s.buf ELSE lastFrame
          /\ sentPackets' = IF h.send # None THEN Append(sentPackets, h.send[1])
                            ELSE sentPackets
          /\ players' = IF next \in Awaiting THEN players ELSE DropConnection(players)
    /\ lastStep' = "read"
    /\ UNCHANGED <<wire, peerFrames, rxBytes, codec, config, serverVars, timer, tasks, tally,
                   channelVars>>

\* read_packet's socket read does not return within the 5 s timeout:
\* read_packet returns Err
Timeout ==
    /\ recvPc = "recv"
    /\ connPc \in Awaiting
    /\ wire = <<>>
    /\ connPc' = OnError(connPc)
    /\ recvPc' = "closed"
    /\ players' = DropConnection(players)
    /\ lastStep' = "timeout"
    /\ UNCHANGED <<enc, outBuffer, sendPc, wire, dec, readType, sentPackets, peerFrames,
                   txBytes, rxBytes, recvd, lastRead, lastFrame, chunking, state, codec,
                   config, serverVars, timer, tasks, tally, channelVars>>

\* the client has closed the socket and read_packet's socket read returns
\* 0 bytes: read_packet bails
Eof ==
    /\ recvPc = "recv"
    /\ connPc \in Awaiting
    /\ wire = <<>>
    /\ connPc' = OnError(connPc)
    /\ recvPc' = "closed"
    /\ players' = DropConnection(players)
    /\ lastStep' = "eof"
    /\ UNCHANGED <<enc, outBuffer, sendPc, wire, dec, readType, sentPackets, peerFrames,
                   txBytes, rxBytes, recvd, lastRead, lastFrame, chunking, state, codec,
                   config, serverVars, timer, tasks, tally, channelVars>>

NextConn ==
    \/ \E f \in ClientFrames : ~Closed /\ PeerWrite(f)
    \/ \E n \in 1..Min(Len(wire), ScratchSize) : Digest(n)
    \/ HandleRead
    \/ Timeout
    \/ Eof

SpecConn == InitConn /\ [][NextConn]_vars


\* configurations: the default one, one with the greatest max_players an
\* i32 holds, a motd to escape and the favicon of an empty file, and one
\* with max_players = 2^31
Configs ==
    {DefaultConfig,
     [max_players |-> <<32767, 65535>>, motd |-> <<34, 72, 105, 34>>,
      favicon |-> SubSeq(DefaultConfig.favicon, 1, 22)],
     [DefaultConfig EXCEPT !.max_players = <<32768, 0>>]}

\* ClientConnection::new under any of the configurations
InitStatus ==
    /\ IdleFramer
    /\ state = "Handshake"
    /\ connPc = "handshake"
    /\ codec = None
    /\ config \in Configs
    /\ IdleServer
    /\ IdleTimer
    /\ IdleAdmission
    /\ IdleChannels

SpecStatus == InitStatus /\ [][NextConn]_vars

(***************************************************************************)
(* disconnect as an operation of its own: a connection in any protocol     *)
(* state, its channels configured in any way, is told to disconnect.       *)
(***************************************************************************)
ProtocolStates == {"Handshake", "Status", "Login", "Play"}

\* lobster of "bye", of "" and of a text to escape
Reasons == {Lobster(<<98, 121, 101>>), Lobster(<<>>), Lobster(<<34>>)}

InitDisconnect ==
    /\ \E key \in {None, Some(KeyA)} :
       \E threshold \in {None} \cup {Some(t) : t \in Thresholds} :
          /\ enc = EncoderConfigured(key, threshold)
          /\ dec = DecoderConfigured(key, threshold)
    /\ outBuffer = <<>>
    /\ sendPc = "ready"
    /\ wire = <<>>
    /\ readType = "InHandshake"
    /\ recvPc = "read"
    /\ InitHistory
    /\ state \in ProtocolStates
    /\ connPc = "disconnect"
    /\ codec = None
    /\ Idle

\* self.disconnect(reason).await
CallDisconnect(reason) ==
    /\ connPc = "disconnect"
    /\ Len(sentPackets) < MaxPackets
    /\ \E d \in {Disconnect(state, reason)} :
       \E s \in {IF d # None THEN EncoderConsume(enc, outBuffer, d[1])
                 ELSE [ok |-> FALSE, buf |-> outBuffer, enc |-> enc]} :
          /\ enc' = s.enc
          /\ outBuffer' = IF s.ok THEN <<>> ELSE s.buf
          /\ sendPc' = IF d # None /\ ~s.ok THEN "failed" ELSE sendPc
          /\ txBytes' = IF s.ok THEN txBytes \o s.buf ELSE txBytes
          /\ lastFrame' = IF s.ok THEN s.buf ELSE lastFrame
          /\ sentPackets' = IF d # None THEN Append(sentPackets, d[1]) ELSE sentPackets
          /\ connPc' = IF s.ok THEN "disconnect" ELSE "failed"
    /\ lastStep' = "disconnect"
    /\ UNCHANGED <<wire, dec, readType, recvPc, peerFrames, rxBytes, recvd, lastRead,
                   chunking, state, codec, idleVars>>

NextDisconnect == \E reason \in Reasons : CallDisconnect(reason)

SpecDisconnect == InitDisconnect /\ [][NextDisconnect]_vars
(***************************************************************************)
(* PlayerCount (network.rs): an AtomicU32 and a fixed max, shared by the   *)
(* clones of the handle.  Each caller is a task; a step is one atomic      *)
(* operation on the counter together with what the caller computes from    *)
(* its result.                                                             *)
(***************************************************************************)
CompareExchangeBlind(cell, current, new) == [ok |-> TRUE, cell |-> new]

\* AtomicU32::compare_exchange(current, new, SeqCst, SeqCst)
CompareExchange(cell, current, new) ==
    IF cell = current THEN [ok |-> TRUE, cell |-> new] ELSE [ok |-> FALSE, cell |-> cell]

FetchSubLost(cell, n) == cell

\* AtomicU32::fetch_sub(n, SeqCst), for n = 1
FetchSub(cell, n) == U32Dec(cell)

MaxTasks == 3

MaxPlayers == 3

MaxCalls == 2

\* a task that is about to call try_add
TaskNew == [pc |-> "load", seen |-> U32(0), calls |-> 1]

\* the listener's counter for a max from 0 to MaxPlayers, and from one to
\* MaxTasks tasks that hold a clone of it
InitAdmission ==
    /\ IdleFramer
    /\ NoConnection
    /\ codec = None
    /\ IdleTimer
    /\ IdleChannels
    /\ \E n \in 0..MaxPlayers : config = [DefaultConfig EXCEPT !.max_players = U32(n)]
    /\ players = PlayerCountNew(config.max_players)
    /\ IdleServer
    /\ \E m \in 1..MaxTasks : tasks = [t \in 1..m |-> TaskNew]
    /\ tally = [added |-> 0, removed |-> 0, refused |-> 0, got |-> None]

\* try_add: the load of the counter and the test of count + 1 against
\* max, which bails when it is above
TryAddLoad(t) ==
    /\ tasks[t].pc = "load"
    /\ \E new \in {U32Inc(players.count)} :
          IF U32Gt(new, players.max)
          THEN /\ tasks' = [tasks EXCEPT ![t].pc = "refused"]
               /\ tally' = [tally EXCEPT !.refused = @ + 1, !.got = None]
          ELSE /\ tasks' = [tasks EXCEPT ![t].pc = "cas", ![t].seen = players.count]
               /\ tally' = [tally EXCEPT !.got = None]
    /\ UNCHANGED <<framerVars, state, connPc, codec, config, serverVars, timer, players, channelVars>>

TryAddCasKeepsCount(t) ==
    /\ tasks[t].pc = "cas"
    /\ \E r \in {CompareExchange(players.count, tasks[t].seen, U32Inc(tasks[t].seen))} :
          /\ players' = [players EXCEPT !.count = r.cell]
          /\ tasks' = [tasks EXCEPT ![t].pc = IF r.ok THEN "in" ELSE "cas",
                                    ![t].seen = IF r.ok THEN U32(0) ELSE @]
          /\ tally' = [tally EXCEPT !.added = IF r.ok THEN @ + 1 ELSE @, !.got = None]
    /\ UNCHANGED <<framerVars, state, connPc, codec, config, serverVars, timer, channelVars>>

\* try_add: the compare_exchange from the count loaded to count + 1, which
\* returns Ok(()) on success and loops on failure
TryAddCas(t) ==
    /\ tasks[t].pc = "cas"
    /\ \E r \in {CompareExchange(players.count, tasks[t].seen, U32Inc(tasks[t].seen))} :
          /\ players' = [players EXCEPT !.count = r.cell]
          /\ tasks' = [tasks EXCEPT ![t].pc = IF r.ok THEN "in" ELSE "load",
                                    ![t].seen = U32(0)]
          /\ tally' = [tally EXCEPT !.added = IF r.ok THEN @ + 1 ELSE @, !.got = None]
    /\ UNCHANGED <<framerVars, state, connPc, codec, config, serverVars, timer, channelVars>>

\* remove_player, called by a task whose try_add succeeded
RemovePlayer(t) ==
    /\ tasks[t].pc = "in"
    /\ players' = [players EXCEPT !.count = FetchSub(@, 1)]
    /\ tasks' = [tasks EXCEPT ![t].pc = "out"]
    /\ tally' = [tally EXCEPT !.removed = @ + 1, !.got = None]
    /\ UNCHANGED <<framerVars, state, connPc, codec, config, serverVars, timer, channelVars>>

\* a task that was refused, or that has left, calls try_add again
CallAgain(t) ==
    /\ tasks[t].pc \in {"refused", "out"}
    /\ tasks[t].calls < MaxCalls
    /\ tasks' = [tasks EXCEPT ![t].pc = "load", ![t].calls = @ + 1]
    /\ tally' = [tally EXCEPT !.got = None]
    /\ UNCHANGED <<framerVars, state, connPc, codec, config, serverVars, timer, players, channelVars>>

\* get
Get ==
    /\ tally.got = None
    /\ tally' = [tally EXCEPT !.got = Some(players.count)]
    /\ UNCHANGED <<framerVars, state, connPc, codec, config, serverVars, timer, players, tasks,
                   channelVars>>

\* every task calls try_add once, and nobody leaves
NextAdmission ==
    \/ \E t \in DOMAIN tasks : TryAddLoad(t)
    \/ \E t \in DOMAIN tasks : TryAddCas(t)

SpecAdmission == InitAdmission /\ [][NextAdmission]_vars

\* tasks join, leave and come back
NextPlayers ==
    \/ \E t \in DOMAIN tasks : TryAddLoad(t)
    \/ \E t \in DOMAIN tasks : TryAddCas(t)
    \/ \E t \in DOMAIN tasks : RemovePlayer(t)
    \/ \E t \in DOMAIN tasks : CallAgain(t)
    \/ Get

SpecPlayers == InitAdmission /\ [][NextPlayers]_vars

MaxContenders == 3

\* from two to MaxContenders tasks that call try_add at once, for a max
\* from 0 to MaxContenders
InitContention ==
    /\ IdleFramer
    /\ NoConnection
    /\ codec = None
    /\ IdleTimer
    /\ IdleChannels
    /\ \E n \in 0..MaxContenders : config = [DefaultConfig EXCEPT !.max_players = U32(n)]
    /\ players = PlayerCountNew(config.max_players)
    /\ IdleServer
    /\ \E m \in 2..MaxContenders : tasks = [t \in 1..m |-> TaskNew]
    /\ tally = [added |-> 0, removed |-> 0, refused |-> 0, got |-> None]

\* every task calls try_add once, and remove_player once when it has joined
NextContention ==
    \/ \E t \in DOMAIN tasks : TryAddLoad(t)
    \/ \E t \in DOMAIN tasks : TryAddCas(t)
    \/ \E t \in DOMAIN tasks : RemovePlayer(t)

\* every task that is inside try_add is scheduled again: the runtime's
\* worker threads run each spawned task that is ready, and try_add has no
\* await in it, so a call that has begun goes on; nothing makes a task
\* that has joined call remove_player
FairContention ==
    \A t \in 1..MaxContenders :
        /\ WF_vars(t \in DOMAIN tasks /\ TryAddLoad(t))
        /\ WF_vars(t \in DOMAIN tasks /\ TryAddCas(t))

SpecContention == InitContention /\ [][NextContention]_vars /\ FairContention

(***************************************************************************)
(* read_packet against the clock.  Time passes, one second at a step,      *)
(* only while read_packet waits in its socket read; timer.waited counts    *)
(* the seconds of the present wait and timer.elapsed those of all waits.   *)
(***************************************************************************)
\* Duration::from_secs(5)
TimeoutSecs == 5

MaxElapsed == 7

\* what the peer writes while status packets are read: a request, the
\* length prefix of a request alone, and a frame under the id 5
ReaderFrames == {RequestFrame, <<1>>, UnknownIdFrame}

InitReader ==
    /\ enc = EncoderNew
    /\ dec = DecoderNew
    /\ outBuffer = <<>>
    /\ sendPc = "ready"
    /\ wire = <<>>
    /\ readType = "InStatus"
    /\ recvPc = "read"
    /\ InitHistory
    /\ NoConnection
    /\ codec = None
    /\ Idle

\* a second passes in the socket read
Tick ==
    /\ recvPc = "recv"
    /\ timer.waited < TimeoutSecs
    /\ timer.elapsed < MaxElapsed
    /\ timer' = [waited |-> timer.waited + 1, elapsed |-> timer.elapsed + 1]
    /\ lastStep' = "tick"
    /\ UNCHANGED <<enc, outBuffer, sendPc, wire, dec, readType, recvPc, sentPackets,
                   peerFrames, txBytes, rxBytes, recvd, lastRead, lastFrame, chunking,
                   state, connPc, codec, config, serverVars, admissionVars, channelVars>>

\* timeout(time, self.reader.read(..)) gives Err(Elapsed): the time is up
\* and the socket has no byte to give; `?` ends read_packet
ReadTimeout ==
    /\ recvPc = "recv"
    /\ timer.waited >= TimeoutSecs
    /\ wire = <<>>
    /\ recvPc' = "failed"
    /\ lastStep' = "timeout"
    /\ UNCHANGED <<enc, outBuffer, sendPc, wire, dec, readType, sentPackets, peerFrames,
                   txBytes, rxBytes, recvd, lastRead, lastFrame, chunking, state, connPc,
                   codec, idleVars>>

\* the peer has closed its end and the socket read returns 0: read_packet
\* bails
ReadEof ==
    /\ recvPc = "recv"
    /\ wire = <<>>
    /\ recvPc' = "failed"
    /\ lastStep' = "eof"
    /\ UNCHANGED <<enc, outBuffer, sendPc, wire, dec, readType, sentPackets, peerFrames,
                   txBytes, rxBytes, recvd, lastRead, lastFrame, chunking, state, connPc,
                   codec, idleVars>>

NextReader ==
    \/ \E f \in ReaderFrames : PeerWrite(f)
    \/ \E n \in 1..Min(Len(wire), ScratchSize) : Digest(n)
    \/ Read
    \/ Tick
    \/ ReadTimeout
    \/ ReadEof

SpecReader == InitReader /\ [][NextReader]_vars

(***************************************************************************)
(* The flume channels (crate flume) as the two loops use them.  A channel  *)
(* is its queue, its capacity, the number of senders alive, whether the    *)
(* receiver is alive, and the items of the senders that wait for room.     *)
(***************************************************************************)
FlumeFull(ch) == ch.cap # None /\ Len(ch.queue) >= ch.cap[1]

FlumeSendUnbounded(ch, item) ==
    IF ~ch.receiver THEN [res |-> "Err", ch |-> ch]
    ELSE [res |-> "Ok", ch |-> [ch EXCEPT !.queue = Append(@, item)]]

\* Sender::send_async(item), polled once: Err when the receiver is gone,
\* the item queued when there is room, and otherwise the item parked with
\* the sender suspended
FlumeSend(ch, item) ==
    IF ~ch.receiver THEN [res |-> "Err", ch |-> ch]
    ELSE IF FlumeFull(ch) THEN [res |-> "Pending", ch |-> [ch EXCEPT !.waiting = Append(@, item)]]
    ELSE [res |-> "Ok", ch |-> [ch EXCEPT !.queue = Append(@, item)]]

\* the suspended send_async, polled again
FlumeSendAgain(ch) ==
    IF ~ch.receiver THEN [res |-> "Err", ch |-> [ch EXCEPT !.waiting = <<>>]]
    ELSE IF FlumeFull(ch) THEN [res |-> "Pending", ch |-> ch]
    ELSE [res |-> "Ok", ch |-> [ch EXCEPT !.queue = Append(@, Head(ch.waiting)),
                                           !.waiting = Tail(@)]]

FlumeRecvHasty(ch) ==
    IF ch.senders = 0 THEN [res |-> "Err", item |-> None, ch |-> ch]
    ELSE IF ch.queue # <<>>
    THEN [res |-> "Ok", item |-> Some(Head(ch.queue)), ch |-> [ch EXCEPT !.queue = Tail(@)]]
    ELSE [res |-> "Pending", item |-> None, ch |-> ch]

\* Receiver::recv_async(), polled once: the oldest item, Err when nothing
\* is queued and no sender is left, and otherwise suspended
FlumeRecv(ch) ==
    IF ch.queue # <<>>
    THEN [res |-> "Ok", item |-> Some(Head(ch.queue)), ch |-> [ch EXCEPT !.queue = Tail(@)]]
    ELSE IF ch.senders = 0 THEN [res |-> "Err", item |-> None, ch |-> ch]
    ELSE [res |-> "Pending", item |-> None, ch |-> ch]

(***************************************************************************)
(* InboundPacketChannel::start: read_packet::<PacketPlayIn>() and          *)
(* send_async of the packet into the channel, in a loop.  The client       *)
(* writes Play packets; the application holds the receiver.                *)
(***************************************************************************)
\* the k-th packet the client sends and its frame
PlayPacket(k) == [name |-> "PacketPlayIn", id |-> k % 2]

PlayFrame(k) ==
    Bind(PackWrite(PlayPacket(k), <<>>).buf, LAMBDA body : VarIntWrite(Len(body)) \o body)

\* the frames of the packets from the k-th to the n-th, each of two bytes
PlayFrames(k, n) ==
    [i \in 1..(2 * (n - k + 1)) |-> PlayFrame(k + ((i - 1) \div 2))[((i - 1) % 2) + 1]]

\* the packets whose frames the client has written so far: two bytes a
\* frame
PlaySent == (Len(rxBytes) + Len(wire)) \div 2

\* the client's side of the stream: the frames as they are, or under the
\* key, each byte enciphered after all those before it
PlayStream(key, n) ==
    IF key = None THEN PlayFrames(1, n)
    ELSE Cfb8Encrypt(CipherNew(key[1]), PlayFrames(1, n), 1).data

\* the bytes of the next n frames on the wire
PlayBurst(n) ==
    Rest(PlayStream(dec.shared_secret, PlaySent + n), Len(rxBytes) + Len(wire))

\* the client writes one frame at a time or, on the plain channel, one
\* frame more than the channel holds
BurstSizes == IF dec.shared_secret = None THEN {1, InboundCapacity + 1} ELSE {1}

MaxPlayFrames == 34

\* the socket read gives one byte, or all there is
ChunkSizes == {1, Len(wire)}

InitInbound ==
    /\ enc = EncoderNew
    /\ \E key \in {None, Some(KeyA)} : dec = DecoderConfigured(key, None)
    /\ outBuffer = <<>>
    /\ sendPc = "ready"
    /\ wire = <<>>
    /\ readType = "PacketPlayIn"
    /\ recvPc = "read"
    /\ InitHistory
    /\ NoConnection
    /\ codec = None
    /\ Idle

\* the call of dec.read::<PacketPlayIn>() in read_packet and, when it gives
\* a packet, send_async of it: queued, parked while the channel is full,
\* or refused because the receiver is gone, which ends the loop with Ok
StartRead ==
    /\ recvPc = "read"
    /\ \E r \in {DecoderRead(dec, readType)} :
       \E s \in {IF r.kind = "Some" THEN FlumeSend(inbound, r.packet[1])
                 ELSE [res |-> "", ch |-> inbound]} :
          /\ dec' = r.dec
          /\ recvd' = IF r.kind = "Some" THEN Append(recvd, r.packet[1]) ELSE recvd
          /\ lastRead' = [kind |-> r.kind, err |-> r.err]
          /\ chunking' = [chunking EXCEPT
                 !.partial = @ \/ (r.kind = "None" /\ dec.staging_buf # <<>>)]
          /\ inbound' = s.ch
          /\ recvPc' = CASE r.kind = "None" -> "recv"
                         [] r.kind = "Err" -> "failed"
                         [] s.res = "Ok" -> "read"
                         [] s.res = "Pending" -> "send"
                         [] s.res = "Err" -> "done"
    /\ lastStep' = "start"
    /\ UNCHANGED <<enc, outBuffer, sendPc, wire, readType, sentPackets, peerFrames,
                   txBytes, rxBytes, lastFrame, state, connPc, codec, config, serverVars, timer,
                   admissionVars, outgoing, writerPc, appRecvd, appSent, socket>>

\* the parked send_async is woken: by room in the channel, or by the drop
\* of the receiver
StartSendAgain ==
    /\ recvPc = "send"
    /\ \E s \in {FlumeSendAgain(inbound)} :
          /\ s.res # "Pending"
          /\ inbound' = s.ch
          /\ recvPc' = IF s.res = "Ok" THEN "read" ELSE "done"
    /\ lastStep' = "resume"
    /\ UNCHANGED <<enc, outBuffer, sendPc, wire, dec, readType, sentPackets, peerFrames,
                   txBytes, rxBytes, recvd, lastRead, lastFrame, chunking, state, connPc,
                   codec, config, serverVars, timer, admissionVars, outgoing, writerPc, appRecvd,
                   appSent, socket>>

\* the application receives the oldest packet of the channel
AppRecv ==
    /\ inbound.receiver
    /\ inbound.queue # <<>>
    /\ appRecvd' = Append(appRecvd, Head(inbound.queue))
    /\ inbound' = [inbound EXCEPT !.queue = Tail(@)]
    /\ lastStep' = "app"
    /\ UNCHANGED <<enc, outBuffer, sendPc, wire, dec, readType, recvPc, sentPackets,
                   peerFrames, txBytes, rxBytes, recvd, lastRead, lastFrame, chunking,
                   state, connPc, codec, config, serverVars, timer, admissionVars, outgoing,
                   writerPc, appSent, socket>>

\* the application drops its receiver
AppDropReceiver ==
    /\ inbound.receiver
    /\ inbound' = [inbound EXCEPT !.receiver = FALSE]
    /\ lastStep' = "drop"
    /\ UNCHANGED <<enc, outBuffer, sendPc, wire, dec, readType, recvPc, sentPackets,
                   peerFrames, txBytes, rxBytes, recvd, lastRead, lastFrame, chunking,
                   state, connPc, codec, config, serverVars, timer, admissionVars, outgoing,
                   writerPc, appRecvd, appSent, socket>>

NextInbound ==
    \/ \E n \in BurstSizes : PlaySent + n <= MaxPlayFrames /\ PeerWrite(PlayBurst(n))
    \/ \E n \in ChunkSizes : wire # <<>> /\ Digest(n)
    \/ StartRead
    \/ StartSendAgain
    \/ AppRecv
    \/ AppDropReceiver
    \/ ReadEof

SpecInbound == InitInbound /\ [][NextInbound]_vars

(***************************************************************************)
(* OutgoingPacketChannel::start: recv_async of the next packet and         *)
(* send_packet of it, until the channel is closed.  The application holds  *)
(* the senders; the socket may break.                                      *)
(***************************************************************************)
\* the packets the application sends in Play
PlayOutPackets == {PacketPlayOutDisconnectNew(reason) : reason \in Reasons}

InitOutbound ==
    /\ \E threshold \in {None, Some(8)} :
          /\ enc = EncoderConfigured(None, threshold)
          /\ dec = DecoderConfigured(None, threshold)
    /\ outBuffer = <<>>
    /\ sendPc = "ready"
    /\ wire = <<>>
    /\ readType = "PacketPlayIn"
    /\ recvPc = "read"
    /\ InitHistory
    /\ NoConnection
    /\ codec = None
    /\ config = DefaultConfig
    /\ IdleServer
    /\ IdleTimer
    /\ IdleAdmission
    /\ inbound = FlumeBounded(InboundCapacity)
    /\ \E n \in 1..2 : outgoing = [FlumeUnbounded EXCEPT !.senders = n]
    /\ writerPc = "recv"
    /\ appRecvd = <<>>
    /\ appSent = <<>>
    /\ socket = "open"

\* the application sends a packet into the channel
AppSend(packet) ==
    /\ outgoing.senders > 0
    /\ Len(appSent) < MaxPackets
    /\ \E s \in {FlumeSend(outgoing, packet)} :
          /\ outgoing' = s.ch
          /\ appSent' = IF s.res = "Ok" THEN Append(appSent, packet) ELSE appSent
    /\ lastStep' = "app"
    /\ UNCHANGED <<enc, outBuffer, sendPc, wire, dec, readType, recvPc, sentPackets,
                   peerFrames, txBytes, rxBytes, recvd, lastRead, lastFrame, chunking,
                   state, connPc, codec, config, serverVars, timer,
                   admissionVars, inbound, writerPc, appRecvd, socket>>

\* the application drops one of its senders
AppDropSender ==
    /\ outgoing.senders > 0
    /\ outgoing' = [outgoing EXCEPT !.senders = @ - 1]
    /\ lastStep' = "drop"
    /\ UNCHANGED <<enc, outBuffer, sendPc, wire, dec, readType, recvPc, sentPackets,
                   peerFrames, txBytes, rxBytes, recvd, lastRead, lastFrame, chunking,
                   state, connPc, codec, config, serverVars, timer,
                   admissionVars, inbound, writerPc, appRecvd, appSent, socket>>

\* the peer resets the connection: writes fail from now on
SocketBreaks ==
    /\ socket = "open"
    /\ socket' = "broken"
    /\ lastStep' = "break"
    /\ UNCHANGED <<enc, outBuffer, sendPc, wire, dec, readType, recvPc, sentPackets,
                   peerFrames, txBytes, rxBytes, recvd, lastRead, lastFrame, chunking,
                   state, connPc, codec, config, serverVars, timer,
                   admissionVars, inbound, outgoing, writerPc, appRecvd, appSent>>

\* recv_async gives a packet or the closure.  A packet goes through
\* send_packet: consume, write_all, clear; an error of either ends start
\* with it.  The closure ends start with Ok.  Either way the receiver goes
\* with the channel struct.
WriterStep ==
    /\ writerPc = "recv"
    /\ \E r \in {FlumeRecv(outgoing)} :
       \E c \in {IF r.res = "Ok" THEN EncoderConsume(enc, outBuffer, r.item[1])
                 ELSE [ok |-> TRUE, buf |-> outBuffer, enc |-> enc]} :
       \E written \in {r.res = "Ok" /\ c.ok /\ socket = "open"} :
          /\ r.res # "Pending"
          /\ writerPc' = IF r.res = "Err" THEN "done"
                         ELSE IF written THEN "recv" ELSE "failed"
          /\ outgoing' = [r.ch EXCEPT !.receiver = written]
          /\ enc' = c.enc
          /\ outBuffer' = IF written THEN <<>> ELSE c.buf
          /\ sendPc' = IF r.res = "Ok" /\ ~written THEN "failed" ELSE sendPc
          /\ txBytes' = IF written THEN txBytes \o c.buf ELSE txBytes
          /\ lastFrame' = IF written THEN c.buf ELSE lastFrame
          /\ sentPackets' = IF r.res = "Ok" THEN Append(sentPackets, r.item[1])
                            ELSE sentPackets
    /\ lastStep' = "write"
    /\ UNCHANGED <<wire, dec, readType, recvPc, peerFrames, rxBytes, recvd, lastRead,
                   chunking, state, connPc, codec, config, serverVars, timer, admissionVars, inbound,
                   appRecvd, appSent, socket>>

NextOutbound ==
    \/ \E packet \in PlayOutPackets : AppSend(packet)
    \/ AppDropSender
    \/ SocketBreaks
    \/ WriterStep

SpecOutbound == InitOutbound /\ [][NextOutbound]_vars

\* the task of start is scheduled whenever recv_async can complete
SpecOutboundFair == SpecOutbound /\ WF_vars(WriterStep)

(***************************************************************************)
(* NetworkListener (network.rs): network_loop accepts and, for each        *)
(* accepted stream, proceed makes a ClientConnection and start spawns its  *)
(* handler as a task.  Each task owns its connection.                      *)
(***************************************************************************)
MaxConns == 2

MaxAcceptErrors == 1

\* ClientConnection::new, seen from its task: the protocol state, where
\* do_initial_handle and read_packet stand, the two framers, the bytes the
\* client has written and the socket has not yet given, what was sent, and
\* how the task ended
ConnNew ==
    [state |-> "Handshake", pc |-> "handshake", recv |-> "read", dec |-> DecoderNew,
     enc |-> EncoderNew, wire |-> <<>>, wrote |-> FALSE, sent |-> <<>>, tx |-> <<>>,
     ended |-> ""]

\* what one client writes, in one burst: the whole status exchange, a
\* login, a frame under an unknown id, a handshake with the next_state 3,
\* and the first bytes of a handshake
ConnBursts ==
    {HandshakeFrame(1) \o RequestFrame \o PingFrame, HandshakeFrame(2), UnknownIdFrame,
     HandshakeFrame(3), TruncatedFrame}

AcceptFailedEnds(l) == [l EXCEPT !.failed = @ + 1, !.running = FALSE]

\* `if let Ok((stream, addr)) = self.inner.accept().await` does not match:
\* nothing is done and the loop goes on
AcceptFailed(l) == [l EXCEPT !.failed = @ + 1]

TaskEndedStopsListener(l, c) == IF c.pc = "failed" THEN [l EXCEPT !.running = FALSE] ELSE l

\* the spawned task of start returns: an Err of handle is logged, and the
\* listener, which did not keep the JoinHandle, goes on as it was
TaskEnded(l, c) == l

\* accept gives a stream: proceed, new and start
Accept ==
    /\ listener.running
    /\ Len(conns) < MaxConns
    /\ listener' = [listener EXCEPT !.accepted = @ + 1]
    /\ conns' = Append(conns, ConnNew)
    /\ UNCHANGED <<framerVars, state, connPc, codec, config, proxy, ident, timer,
                   admissionVars, channelVars>>

\* accept gives an error
AcceptFails ==
    /\ listener.running
    /\ listener.failed < MaxAcceptErrors
    /\ listener' = AcceptFailed(listener)
    /\ UNCHANGED <<framerVars, state, connPc, codec, config, conns, proxy, ident, timer,
                   admissionVars, channelVars>>

\* the client of the i-th connection writes its bytes
ClientWrite(i, bytes) ==
    /\ ~conns[i].wrote
    /\ conns' = [conns EXCEPT ![i].wire = bytes, ![i].wrote = TRUE]
    /\ UNCHANGED <<framerVars, state, connPc, codec, config, listener, proxy, ident,
                   timer, admissionVars, channelVars>>

\* the i-th task in read_packet: the socket read gives what is there, and
\* digest takes it
ConnDigest(i) ==
    /\ conns[i].recv = "recv"
    /\ conns[i].wire # <<>>
    /\ conns' = [conns EXCEPT ![i].dec = DecoderDigest(@, conns[i].wire),
                              ![i].wire = <<>>,
                              ![i].recv = "read"]
    /\ UNCHANGED <<framerVars, state, connPc, codec, config, listener, proxy, ident,
                   timer, admissionVars, channelVars>>

\* the i-th task from dec.read::<P>() to its next read_packet or its end,
\* as a new connection record
ConnAfterRead(c) ==
    Bind(DecoderRead(c.dec, ReadTypeAt(c.pc)), LAMBDA r :
    Bind(IF r.kind = "Some" THEN OnPacket(c.pc, c.state, r.packet[1])
         ELSE [state |-> c.state, send |-> None,
               next |-> IF r.kind = "None" THEN c.pc ELSE OnError(c.pc)], LAMBDA h :
    Bind(IF h.send # None THEN EncoderConsume(c.enc, <<>>, h.send[1])
         ELSE [ok |-> TRUE, buf |-> <<>>, enc |-> c.enc], LAMBDA s :
    Bind(IF s.ok THEN h.next ELSE "failed", LAMBDA next :
        [c EXCEPT !.dec = r.dec,
                  !.state = h.state,
                  !.pc = next,
                  !.recv = IF next \notin Awaiting THEN "closed"
                           ELSE IF r.kind = "None" THEN "recv" ELSE "read",
                  !.enc = s.enc,
                  !.tx = IF s.ok THEN @ \o s.buf ELSE @,
                  !.sent = IF h.send # None /\ s.ok THEN Append(@, h.send[1]) ELSE @,
                  !.ended = IF r.kind = "Err" THEN "decode"
                            ELSE IF ~s.ok THEN "send" ELSE @]))))

ConnRead(i) ==
    /\ conns[i].recv = "read"
    /\ conns[i].pc \in Awaiting
    /\ \E c \in {ConnAfterRead(conns[i])} :
          /\ conns' = [conns EXCEPT ![i] = c]
          /\ listener' = IF c.pc \in Awaiting THEN listener ELSE TaskEnded(listener, c)
    /\ UNCHANGED <<framerVars, state, connPc, codec, config, proxy, ident, timer,
                   admissionVars, channelVars>>

\* the socket read of the i-th task does not return within the timeout
ConnTimeout(i) ==
    /\ conns[i].recv = "recv"
    /\ conns[i].wire = <<>>
    /\ \E c \in {[conns[i] EXCEPT !.pc = OnError(@), !.recv = "closed",
                                  !.ended = "timeout"]} :
          /\ conns' = [conns EXCEPT ![i] = c]
          /\ listener' = TaskEnded(listener, c)
    /\ UNCHANGED <<framerVars, state, connPc, codec, config, proxy, ident, timer,
                   admissionVars, channelVars>>

\* the client of the i-th connection has closed it: the socket read gives
\* 0 bytes and read_packet bails
ConnEof(i) ==
    /\ conns[i].recv = "recv"
    /\ conns[i].wire = <<>>
    /\ conns[i].wrote
    /\ \E c \in {[conns[i] EXCEPT !.pc = OnError(@), !.recv = "closed",
                                  !.ended = "eof"]} :
          /\ conns' = [conns EXCEPT ![i] = c]
          /\ listener' = TaskEnded(listener, c)
    /\ UNCHANGED <<framerVars, state, connPc, codec, config, proxy, ident, timer,
                   admissionVars, channelVars>>

\* NetworkListener::init: the listener bound, no connection yet
InitListener ==
    /\ IdleFramer
    /\ NoConnection
    /\ codec = None
    /\ config = DefaultConfig
    /\ IdleTimer
    /\ IdleAdmission
    /\ IdleChannels
    /\ listener = [running |-> TRUE, accepted |-> 0, failed |-> 0]
    /\ conns = <<>>
    /\ proxy = [proxy |-> PacketProxyNew, last |-> None, out |-> <<>>]
    /\ ident = None

NextListener ==
    \/ Accept
    \/ AcceptFails
    \/ \E i \in DOMAIN conns : \E bytes \in ConnBursts : ClientWrite(i, bytes)
    \/ \E i \in DOMAIN conns : ConnDigest(i)
    \/ \E i \in DOMAIN conns : ConnRead(i)
    \/ \E i \in DOMAIN conns : ConnTimeout(i)
    \/ \E i \in DOMAIN conns : ConnEof(i)

SpecListener == InitListener /\ [][NextListener]_vars

(***************************************************************************)
(* The inbound channel with the key set after traffic has begun:           *)
(* InboundPacketChannel::set_encryption between two calls of read_packet.  *)
(***************************************************************************)
\* what the client writes: a status request, and the first bytes of a ping
MidStreamFrames == {RequestFrame, SubSeq(PingFrame, 1, 4)}

\* the same as the first bytes of the client's keyed stream
MidStreamKeyed == {Cfb8Encrypt(CipherNew(KeyA), f, 1).data : f \in MidStreamFrames}

InitMidStream ==
    /\ InitFramer({None}, {None})
    /\ readType = "InStatus"

\* InboundPacketChannel::set_encryption, called while no read_packet runs:
\* before the first, or after one has returned a packet
SetEncryption ==
    /\ dec.shared_secret = None
    /\ recvPc = "read"
    /\ lastRead.kind \in {"", "Some"}
    /\ dec' = DecoderSetEncryption(dec, KeyA)
    /\ lastStep' = "key"
    /\ UNCHANGED <<enc, outBuffer, sendPc, wire, readType, recvPc, sentPackets, peerFrames,
                   txBytes, rxBytes, recvd, lastRead, lastFrame, chunking, state, connPc,
                   codec, idleVars>>

\* the client writes in the clear until the key is set; the socket gives
\* these bytes before the key is used; then the client writes the first
\* bytes of its keyed stream
NextMidStream ==
    \/ \E f \in MidStreamFrames : dec.shared_secret = None /\ PeerWrite(f)
    \/ \E f \in MidStreamKeyed :
           /\ dec.shared_secret # None
           /\ wire = <<>>
           /\ \A k \in DOMAIN peerFrames : peerFrames[k] \notin MidStreamKeyed
           /\ PeerWrite(f)
    \/ \E n \in 1..Min(Len(wire), ScratchSize) :
           chunking.keyed < MaxKeyedDigests /\ Digest(n)
    \/ Read
    \/ SetEncryption

SpecMidStream == InitMidStream /\ [][NextMidStream]_vars

(***************************************************************************)
(* Identifier (util.rs).  Strings are their bytes; the patterns are run as *)
(* the regex crate runs them: unanchored, leftmost first, greedy.          *)
(***************************************************************************)
\* [a-z\d.-_]: a to z, the digits, and the range from '.' to '_', which
\* holds the digits, '/', ':' and A to Z, and not '-'
InNamespaceClass(c) == (c >= 97 /\ c <= 122) \/ (c >= 48 /\ c <= 57) \/ (c >= 46 /\ c <= 95)

\* [a-z\d.-_/]: the same and '/', which the range holds already
InPathClass(c) == InNamespaceClass(c) \/ c = 47

\* NAMESPACE_RE.is_match and PATH_RE.is_match: a match of class+ anywhere
NamespaceReIsMatch(s) == \E i \in DOMAIN s : InNamespaceClass(s[i])

PathReIsMatch(s) == \E i \in DOMAIN s : InPathClass(s[i])

\* a match of FULL_RE from s: the first group up to a ':' at e, the second
\* from e + 1 to k
FullReMatches(text, s, e, k) ==
    /\ s < e /\ e < k /\ k <= Len(text)
    /\ text[e] = 58
    /\ \A i \in s..(e - 1) : InNamespaceClass(text[i])
    /\ \A i \in (e + 1)..k : InPathClass(text[i])

\* FULL_RE.captures(text): the leftmost start, there the longest first
\* group, then the longest second group; None without a match
FullReCaptures(text) ==
    Bind({s \in DOMAIN text : \E e, k \in DOMAIN text : FullReMatches(text, s, e, k)},
         LAMBDA starts :
    IF starts = {} THEN None
    ELSE Bind(CHOOSE s \in starts : \A t \in starts : s <= t, LAMBDA s :
         Bind(CHOOSE e \in DOMAIN text :
                  /\ \E k \in DOMAIN text : FullReMatches(text, s, e, k)
                  /\ \A f \in DOMAIN text :
                        (\E k \in DOMAIN text : FullReMatches(text, s, f, k)) => f <= e,
              LAMBDA e :
         Bind(CHOOSE k \in DOMAIN text :
                  /\ FullReMatches(text, s, e, k)
                  /\ \A j \in DOMAIN text : FullReMatches(text, s, e, j) => j <= k,
              LAMBDA k :
             Some(<<SubSeq(text, s, k), SubSeq(text, s, e - 1), SubSeq(text, e + 1, k)>>)))))

\* Identifier::new(namespace, path)
IdentifierNew(namespace, path) ==
    IF ~NamespaceReIsMatch(namespace) THEN [ok |-> FALSE, id |-> None]
    ELSE IF ~PathReIsMatch(path) THEN [ok |-> FALSE, id |-> None]
    ELSE [ok |-> TRUE, id |-> Some([namespace |-> namespace, path |-> path])]

\* Identifier::parse(from): captures.get(0) is passed as the namespace and
\* captures.get(1) as the path
IdentifierParse(text) ==
    Bind(FullReCaptures(text), LAMBDA captures :
        IF captures = None THEN [ok |-> FALSE, id |-> None]
        ELSE IdentifierNew(captures[1][1], captures[1][2]))

MaxIdentLen == 3

\* 'm', '1', '.', '_', '-', '/', ':', 'S' and ' '
IdentChars == {109, 49, 46, 95, 45, 47, 58, 83, 32}

\* "minecraft:stone", "Minecraft:Stone" and the short strings
IdentTexts ==
    {<<109, 105, 110, 101, 99, 114, 97, 102, 116, 58, 115, 116, 111, 110, 101>>,
     <<77, 105, 110, 101, 99, 114, 97, 102, 116, 58, 83, 116, 111, 110, 101>>}
        \cup UNION {[1..n -> IdentChars] : n \in 0..MaxIdentLen}

InitIdent ==
    /\ IdleFramer
    /\ NoConnection
    /\ codec = None
    /\ config = DefaultConfig
    /\ IdleTimer
    /\ IdleAdmission
    /\ IdleChannels
    /\ listener = [running |-> FALSE, accepted |-> 0, failed |-> 0]
    /\ conns = <<>>
    /\ proxy = [proxy |-> PacketProxyNew, last |-> None, out |-> <<>>]
    /\ \E text \in IdentTexts : ident = [text |-> text, result |-> None]

\* Identifier::parse(text)
Parse ==
    /\ ident.result = None
    /\ ident' = [ident EXCEPT !.result = Some(IdentifierParse(ident.text))]
    /\ UNCHANGED <<framerVars, state, connPc, codec, config, listener, conns, proxy, timer,
                   admissionVars, channelVars>>

NextIdent == Parse

SpecIdent == InitIdent /\ [][NextIdent]_vars

(***************************************************************************)
(* PacketEncoder::consume called again and again on one encoder, each time *)
(* with an empty out_buffer, whatever the call before returned.            *)
(***************************************************************************)
\* a handshake whose server_address is one byte above the String cap, so
\* that its writer fails after the id and the protocol version
OversizedHandshake ==
    [name |-> "PacketHandshakeIn", protocol_version |-> 759,
     server_address |-> [i \in 1..(MAX_STRING_SIZE + 1) |-> 97],
     server_port |-> 25565, next_state |-> "Status"]

ConsumePackets == HandshakePackets \cup StatusPackets \cup {OversizedHandshake}

InitConsume == InitFramer({None}, {None} \cup {Some(t) : t \in Thresholds})

\* enc.consume(&mut out_buffer, &packet)
Consume(packet) ==
    /\ Len(sentPackets) < MaxPackets
    /\ \E r \in {EncoderConsume(enc, <<>>, packet)} :
          /\ enc' = r.enc
          /\ sendPc' = IF r.ok THEN "ready" ELSE "failed"
          /\ lastFrame' = r.buf
    /\ sentPackets' = Append(sentPackets, packet)
    /\ lastStep' = "consume"
    /\ UNCHANGED <<outBuffer, wire, dec, readType, recvPc, peerFrames, txBytes, rxBytes,
                   recvd, lastRead, chunking, state, connPc, codec, idleVars>>

NextConsume == \E packet \in ConsumePackets : Consume(packet)

SpecConsume == InitConsume /\ [][NextConsume]_vars

(***************************************************************************)
(* PacketDecoder::read called again after it has returned Err, on a        *)
(* stream in which a frame that does not decode is followed by one that    *)
(* does.                                                                   *)
(***************************************************************************)
MaxStaleBytes == 4

\* bodies that P::pack_read refuses: an unknown packet id, a ping cut
\* short, a handshake with the next_state 3, and a handshake that ends
\* within its fields
BadBodies(P) ==
    IF P = "InHandshake"
    THEN {<<5>>, Rest(HandshakeFrame(3), 1), <<0, 247, 5>>}
    ELSE {<<5>>, <<1, 7>>}

\* a body in the envelope of the configuration: plain, or with a data_len
\* of 0, or deflated
Enveloped(body, compressed, deflated) ==
    IF ~compressed THEN VarIntWrite(Len(body)) \o body
    ELSE Bind(IF deflated THEN VarIntWrite(Len(body)) \o ZlibCompress(body)
              ELSE VarIntWrite(0) \o body,
              LAMBDA inner : VarIntWrite(Len(inner)) \o inner)

BadFrames(P, compressed) ==
    {Enveloped(body, compressed, deflated) :
        body \in BadBodies(P), deflated \in (IF compressed THEN BOOLEAN ELSE {FALSE})}

GoodFrame(P, compressed) == Enveloped(SampleBody(P), compressed, FALSE)

InitBadFrame == InitFramer({None}, {None, Some(8)})

\* dec.read::<P>() once more after it returned Err
ReadAfterError ==
    /\ recvPc = "failed"
    /\ lastRead.kind = "Err"
    /\ Len(dec.compression_buf) < MaxStaleBytes
    /\ \E r \in {DecoderRead(dec, readType)} :
          /\ dec' = r.dec
          /\ recvd' = IF r.kind = "Some" THEN Append(recvd, r.packet[1]) ELSE recvd
          /\ recvPc' = CASE r.kind = "Some" -> "read"
                         [] r.kind = "None" -> "recv"
                         [] r.kind = "Err" -> "failed"
          /\ lastRead' = [kind |-> r.kind, err |-> r.err]
    /\ lastStep' = "reread"
    /\ UNCHANGED <<enc, outBuffer, sendPc, wire, readType, sentPackets, peerFrames,
                   txBytes, rxBytes, lastFrame, chunking, state, connPc, codec, idleVars>>

NextBadFrame ==
    \/ \E f \in BadFrames(readType, dec.compression_threshold # None)
                  \cup {GoodFrame(readType, dec.compression_threshold # None)} :
           PeerWrite(f)
    \/ \E n \in {1, Len(wire)} : wire # <<>> /\ Digest(n)
    \/ Read
    \/ ReadAfterError

SpecBadFrame == InitBadFrame /\ [][NextBadFrame]_vars

(***************************************************************************)
(* PacketProxy (network/proxy.rs), run side by side with a PacketEncoder   *)
(* and a PacketDecoder that have no key and no threshold: every call on    *)
(* the proxy is made on the framers as well.                               *)
(***************************************************************************)
MaxProxyBytes == 4

\* PacketProxy::encode, with encode_uncompressed
ProxyEncode(px, buffer, packet) ==
    Bind(PackWrite(packet, px.staging), LAMBDA w :
        IF ~w.ok THEN [ok |-> FALSE, buf |-> buffer, proxy |-> [px EXCEPT !.staging = w.buf]]
        ELSE [ok |-> TRUE,
              buf |-> buffer \o VarIntWrite(Len(w.buf)) \o w.buf,
              proxy |-> [px EXCEPT !.staging = <<>>]])

\* PacketProxy::accept
ProxyAccept(px, bytes) ==
    [px EXCEPT !.start_index = @ + Len(bytes), !.staging = @ \o bytes]

\* PacketProxy::next::<P>
ProxyNext(px, P) ==
    Bind(VarIntRead(px.staging, 0), LAMBDA length :
        IF ~length.ok THEN [kind |-> "None", packet |-> None, proxy |-> px, err |-> ""]
        ELSE IF ~FrameComplete(Len(px.staging), length.pos, length.val)
        THEN [kind |-> "None", packet |-> None, proxy |-> px, err |-> ""]
        ELSE Bind(PackRead(P, SubSeq(px.staging, length.pos + 1, length.pos + length.val), 0),
                  LAMBDA packet :
                IF ~packet.ok
                THEN [kind |-> "Err", packet |-> None, proxy |-> px, err |-> packet.err]
                ELSE [kind |-> "Some", packet |-> Some(packet.val),
                      proxy |-> [px EXCEPT !.staging = Rest(@, length.val + length.pos)],
                      err |-> ""]))

\* pieces of frames: a request, a frame under an unknown id, and a single
\* byte
ProxyChunks == {RequestFrame, UnknownIdFrame, <<1>>}

ProxyPackets == {[name |-> "PacketStatusInRequest"], OversizedHandshake}

InitProxy ==
    /\ InitFramer({None}, {None})
    /\ readType = "InStatus"

\* proxy.accept(bytes) and dec.digest(bytes)
ProxyAcceptStep(bytes) ==
    /\ Len(rxBytes) + Len(bytes) <= MaxProxyBytes
    /\ proxy' = [proxy EXCEPT !.proxy = ProxyAccept(@, bytes)]
    /\ dec' = DecoderDigest(dec, bytes)
    /\ rxBytes' = rxBytes \o bytes
    /\ lastStep' = "accept"
    /\ UNCHANGED <<enc, outBuffer, sendPc, wire, readType, recvPc, sentPackets, peerFrames,
                   txBytes, recvd, lastRead, lastFrame, chunking, state, connPc, codec,
                   config, listener, conns, ident, timer, admissionVars, channelVars>>

\* proxy.next::<P>() and dec.read::<P>()
ProxyNextStep ==
    /\ \E n \in {ProxyNext(proxy.proxy, readType)} :
          proxy' = [proxy EXCEPT !.proxy = n.proxy,
                                 !.last = Some([kind |-> n.kind, packet |-> n.packet,
                                                err |-> n.err])]
    /\ \E r \in {DecoderRead(dec, readType)} :
          /\ dec' = r.dec
          /\ recvd' = IF r.kind = "Some" THEN Append(recvd, r.packet[1]) ELSE recvd
          /\ lastRead' = [kind |-> r.kind, err |-> r.err]
    /\ lastStep' = "next"
    /\ UNCHANGED <<enc, outBuffer, sendPc, wire, readType, recvPc, sentPackets, peerFrames,
                   txBytes, rxBytes, lastFrame, chunking, state, connPc, codec,
                   config, listener, conns, ident, timer, admissionVars, channelVars>>

\* proxy.encode(&mut buffer, &packet) and enc.consume(&mut buffer, &packet),
\* each into an empty buffer
ProxyEncodeStep(packet) ==
    /\ Len(sentPackets) < MaxPackets
    /\ \E e \in {ProxyEncode(proxy.proxy, <<>>, packet)} :
          proxy' = [proxy EXCEPT !.proxy = e.proxy, !.out = e.buf]
    /\ \E r \in {EncoderConsume(enc, <<>>, packet)} :
          /\ enc' = r.enc
          /\ sendPc' = IF r.ok THEN "ready" ELSE "failed"
          /\ lastFrame' = r.buf
    /\ sentPackets' = Append(sentPackets, packet)
    /\ lastStep' = "encode"
    /\ UNCHANGED <<outBuffer, wire, dec, readType, recvPc, peerFrames, txBytes, rxBytes,
                   recvd, lastRead, chunking, state, connPc, codec,
                   config, listener, conns, ident, timer, admissionVars, channelVars>>

NextProxy ==
    \/ \E bytes \in ProxyChunks : ProxyAcceptStep(bytes)
    \/ ProxyNextStep
    \/ \E packet \in ProxyPackets : ProxyEncodeStep(packet)

SpecProxy == InitProxy /\ [][NextProxy]_vars


(***************************************************************************)
(* read_packet on a stream whose length prefix is negative.  The client    *)
(* writes status requests and VarInts below zero, which arrive whole or a  *)
(* byte at a time, while the clock of read_packet runs.                    *)
(***************************************************************************)
\* a request with the length prefix -1 behind it, and the length prefix
\* i32::MIN
NegativeFrames == {RequestFrame \o VarIntWrite(-1), VarIntWrite(MinI32)}

\* the staged bytes begin with a whole VarInt below zero
NegativePrefix(d) ==
    Bind(VarIntRead(d.staging_buf, 0), LAMBDA size : size.ok /\ size.val < 0)

NextNegative ==
    \/ \E f \in NegativeFrames : PeerWrite(f)
    \/ \E n \in {1, Len(wire)} : n \in 1..Min(Len(wire), ScratchSize) /\ Digest(n)
    \/ Read
    \/ Tick
    \/ ReadTimeout
    \/ ReadEof

SpecNegative == InitReader /\ [][NextNegative]_vars
(***************************************************************************)
(* What the protocol description expects of the framer, stated against     *)
(* the histories.                                                          *)
(***************************************************************************)
Plain ==
    /\ enc.encryptor = None /\ enc.compression_threshold = None
    /\ dec.decryptor = None /\ dec.compression_threshold = None

Keyed == enc.encryptor # None /\ dec.decryptor # None

Compressed == enc.compression_threshold # None /\ dec.compression_threshold # None

\* A step of the action Read / of the action Digest
ReadStep == recvPc = "read" /\ lastStep' = "read"

DigestStep == recvPc = "recv" /\ lastStep' = "digest"

Serialized(p) == PackWrite(p, <<>>).buf

\* VarInt(L) || payload
PlainFrame(p) == VarIntWrite(Len(Serialized(p))) \o Serialized(p)

\* the length of the frames of the first k packets
RECURSIVE FramesLen(_, _)
FramesLen(packets, k) ==
    IF k = 0 THEN 0 ELSE FramesLen(packets, k - 1) + Len(PlainFrame(packets[k]))

\* how many of the frames of packets, counted from the k-th on, lie whole
\* within the first n bytes of the stream
RECURSIVE FramesWithin(_, _, _)
FramesWithin(packets, k, n) ==
    IF k < Len(packets) /\ FramesLen(packets, k + 1) <= n
    THEN FramesWithin(packets, k + 1, n)
    ELSE k

\* The packets read so far are the first packets framed, in order; none is
\* returned before its frame is digested in full; and once read has
\* returned None, every packet whose frame is digested in full is returned.
DecodedWithFinalByte ==
    /\ Len(recvd) <= Len(sentPackets)
    /\ recvd = SubSeq(sentPackets, 1, Len(recvd))
    /\ Len(recvd) <= FramesWithin(sentPackets, 0, Len(rxBytes))
    /\ recvPc = "recv" => Len(recvd) = FramesWithin(sentPackets, 0, Len(rxBytes))

\* C1: without encryption and compression, whatever the split of the
\* framed bytes into digest calls, the packets read so far are the first
\* packets that were framed, in order, none lost, duplicated or invented;
\* no read fails; no packet is returned before its frame is digested in
\* full; and once read has returned None, every frame digested in full has
\* been returned.
FramerStreaming == Plain => (recvPc # "failed" /\ DecodedWithFinalByte)

\* C1 happens: two packets came through although some chunk ended inside
\* a frame.
FramerStreamingWitness ==
    /\ Plain
    /\ Len(recvd) >= 2
    /\ recvd = sentPackets
    /\ chunking.partial
    /\ recvPc = "recv"
    /\ wire = <<>>

\* staging holds a length VarInt that more bytes could still complete
LengthTruncated(s) == Len(s) < VarIntSizeLimit /\ \A i \in 1..Len(s) : s[i] >= 128

\* staging holds a length L and fewer than L bytes after it
FrameShort(s) ==
    \E l \in {VarIntRead(s, 0)} : l.ok /\ l.val >= 0 /\ Len(s) - l.pos < l.val

\* C2: a read on a truncated length VarInt, or on a length L with fewer
\* than L bytes after it, returns None and leaves the decoder as it was;
\* and when encoded PacketHandshakeIn packets are digested one byte at a
\* time with read after each byte, a packet is returned only by the read
\* after the final byte of its frame, and equals the original.
NoPartialDecode ==
    /\ [][(ReadStep /\ (LengthTruncated(dec.staging_buf) \/ FrameShort(dec.staging_buf)))
            => (lastRead'.kind = "None" /\ dec' = dec /\ recvd' = recvd)]_vars
    /\ []((Plain /\ readType = "InHandshake" /\ chunking.bytewise) => DecodedWithFinalByte)

\* C2 happens: a handshake digested byte by byte was returned after reads
\* on its partial frame returned None.
NoPartialDecodeWitness ==
    /\ Plain
    /\ readType = "InHandshake"
    /\ chunking.bytewise
    /\ chunking.partial
    /\ Len(recvd) >= 1
    /\ rxBytes = txBytes
    /\ lastRead.kind = "None"

\* C3: with the same key on both ends, whatever the chunking, no read
\* fails, the packets read are the first packets framed, in order, and when
\* two or more packets were framed and all their bytes are digested and
\* read has returned None, all of them have been returned.
EncryptionContinuity ==
    Keyed =>
        /\ recvPc # "failed"
        /\ Len(recvd) <= Len(sentPackets)
        /\ recvd = SubSeq(sentPackets, 1, Len(recvd))
        /\ (Len(sentPackets) >= 2 /\ wire = <<>> /\ recvPc = "recv")
               => recvd = sentPackets

\* the shift register of a CFB8 instance made from key that has processed
\* the ciphertext bytes
RegisterAfter(key, ciphertext) ==
    SubSeq(key \o ciphertext, Len(ciphertext) + 1, Len(ciphertext) + Len(key))

\* C4: the stored encryptor is the instance advanced over every byte
\* emitted so far, and the stored decryptor the instance advanced over
\* every byte digested so far.
CipherStatePersisted ==
    Keyed =>
        /\ enc.encryptor[1].iv = RegisterAfter(enc.shared_secret[1], txBytes)
        /\ dec.decryptor[1].iv = RegisterAfter(dec.shared_secret[1], rxBytes)

\* C5: a digest with a key set leaves the bytes already staged as they
\* are, and appends as many bytes as it was given.
DigestDecryptsOnlyNewBytes ==
    [][(DigestStep /\ dec.decryptor # None)
          => /\ IsPrefix(dec.staging_buf, dec'.staging_buf)
             /\ Len(dec'.staging_buf) = Len(dec.staging_buf) + Len(rxBytes') - Len(rxBytes)]_vars

\* VarInt(total) || VarInt(data_len) || body
CompressedEnvelope(p, threshold) ==
    Bind(Serialized(p), LAMBDA raw :
    Bind(IF Len(raw) < threshold THEN 0 ELSE Len(raw), LAMBDA data_len :
    Bind(IF Len(raw) < threshold THEN raw ELSE ZlibCompress(raw), LAMBDA body :
        VarIntWrite(Len(VarIntWrite(data_len)) + Len(body))
            \o VarIntWrite(data_len) \o body)))

\* C6: with a threshold set, what consume emits for a packet is the
\* compressed envelope of that packet.
CompressedEnvelopeEmitted ==
    (Compressed /\ lastStep = "send" /\ sendPc = "ready")
        => lastFrame = CompressedEnvelope(sentPackets[Len(sentPackets)],
                                          enc.compression_threshold[1])

\* C7: with the same threshold on both ends, a packet that was framed and
\* whose bytes are all digested is what read returns: no read fails, and
\* once read has returned None the packets read are the packets framed.
CompressionTransparency ==
    Compressed =>
        /\ recvPc # "failed"
        /\ (Len(sentPackets) >= 1 /\ wire = <<>> /\ rxBytes = txBytes /\ recvPc = "recv")
               => recvd = sentPackets

\* staging starts with a complete compressed frame whose data_len is
\* positive and is not the length of what its zlib stream inflates to
DataLenMismatch(s) ==
    \E l \in {VarIntRead(s, 0)} :
        /\ l.ok /\ l.val >= 0 /\ Len(s) - l.pos >= l.val
        /\ \E data_len \in {VarIntRead(SubSeq(s, l.pos + 1, l.pos + l.val), 0)} :
              /\ data_len.ok /\ data_len.val > 0
              /\ \E z \in {ZlibDecompress(SubSeq(s, l.pos + data_len.pos + 1,
                                                 l.pos + l.val))} :
                    z.ok /\ Len(z.val) # data_len.val

\* C8: with compression enabled, a read on a frame whose data_len is
\* positive and differs from the inflated length fails and returns no
\* packet.
DecompressionSizeMismatchFails ==
    [][(ReadStep /\ dec.compression_threshold # None /\ DataLenMismatch(dec.staging_buf))
          => (lastRead'.kind = "Err" /\ recvd' = recvd)]_vars

\* staging starts with a complete frame of the uncompressed envelope, or
\* of the compressed envelope with data_len 0, in which the reader of P
\* succeeds before the end of the frame
TrailingGarbage(s, P, compressed) ==
    \E l \in {VarIntRead(s, 0)} :
        /\ l.ok /\ l.val >= 0 /\ Len(s) - l.pos >= l.val
        /\ \E frame \in {SubSeq(s, l.pos + 1, l.pos + l.val)} :
              IF compressed
              THEN /\ Len(frame) >= 1 /\ frame[1] = 0
                   /\ \E p \in {PackRead(P, frame, 1)} : p.ok /\ p.pos < Len(frame)
              ELSE \E p \in {PackRead(P, frame, 0)} : p.ok /\ p.pos < Len(frame)

\* C9: a read on a frame in which bytes remain after the packet is decoded
\* fails; it does not return Some.
TrailingGarbageFails ==
    [][(ReadStep /\ TrailingGarbage(dec.staging_buf, readType,
                                    dec.compression_threshold # None))
          => lastRead'.kind = "Err"]_vars

\* staging starts with a length prefix of more than VarIntSizeLimit bytes
LengthTooLong(s) ==
    Len(s) > VarIntSizeLimit /\ \A i \in 1..VarIntSizeLimit : s[i] >= 128

\* C10: a read on a length prefix longer than 5 VarInt bytes fails; None
\* is not returned for it.
VarIntTooLongFails ==
    [][(ReadStep /\ LengthTooLong(dec.staging_buf)) => lastRead'.kind = "Err"]_vars
(***************************************************************************)
(* What the protocol description expects of the wire codec, stated         *)
(* against the codec runs.                                                 *)
(***************************************************************************)
\* the read of the run has been made
WasRead(T) == codec.T = T /\ codec.read # None

\* the number of bytes with the continuation bit set that b holds from
\* position i on, before the first byte without it
RECURSIVE ContinuationRun(_, _)
ContinuationRun(b, i) ==
    IF i <= Len(b) /\ b[i] >= 128 THEN 1 + ContinuationRun(b, i + 1) ELSE 0

\* a read of T accepts the encodings of at most limit bytes, consuming
\* them, and fails on limit continuation bytes
AcceptsUpTo(T, limit) ==
    WasRead(T) =>
        \E run \in {ContinuationRun(codec.buffer, codec.start + 1)} :
            /\ (run < limit /\ codec.start + run < Len(codec.buffer))
                   => (codec.read[1].ok /\ codec.read[1].pos = codec.start + run + 1)
            /\ run >= limit => ~codec.read[1].ok

\* C11: VarInt::pack_read accepts every encoding of 1 to 5 bytes and fails
\* when the first five bytes all have the continuation bit set;
\* VarLong::pack_read accepts every encoding of 1 to 10 bytes and fails
\* when the first ten bytes all have the continuation bit set.
VarNumReadLimits == AcceptsUpTo("VarInt", 5) /\ AcceptsUpTo("VarLong", 10)

\* C11 happens: five continuation bytes and a sixth byte were read as a
\* VarInt, and the read failed on the sixth.
VarNumReadLimitsWitness ==
    /\ WasRead("VarInt")
    /\ codec.value = None
    /\ ContinuationRun(codec.buffer, codec.start + 1) = 5
    /\ Len(codec.buffer) > codec.start + 5
    /\ ~codec.read[1].ok
    /\ codec.read[1].err = "VarInt too long"

\* the bytes the write of the run appended
Encoded == Rest(codec.buffer, codec.start)

\* the value of the run was written
WasWritten(T) == codec.T = T /\ codec.value # None /\ codec.wrote = Some(TRUE)

\* what was written reads back as the value it was written from, and the
\* read stops where the write stopped
ReadsBack(T) ==
    (WasRead(T) /\ codec.value # None) =>
        /\ codec.read[1].ok
        /\ codec.read[1].val = codec.value[1]
        /\ codec.read[1].pos = Len(codec.buffer)

\* no write of the run has failed
WriteSucceeds(T) == (codec.T = T /\ codec.value # None) => codec.wrote # Some(FALSE)

\* C12: for the values of VarInt (the i32 range, negatives, zero and
\* 2^k-1 included), of VarLong, of String with at most 32767 bytes and of
\* Vec<String>, pack_write succeeds, pack_read on the bytes written
\* returns the value and consumes exactly these bytes; a VarInt is
\* written in 1 to 5 bytes and a VarLong in 1 to 10.
PrimitiveRoundTrip ==
    /\ ReadsBack("VarInt") /\ ReadsBack("VarLong")
    /\ ReadsBack("String") /\ ReadsBack("Vec<String>")
    /\ WriteSucceeds("VarInt") /\ WriteSucceeds("VarLong") /\ WriteSucceeds("Vec<String>")
    /\ (codec.T = "String" /\ codec.value # None /\ Len(codec.value[1]) <= 32767)
           => codec.wrote # Some(FALSE)
    /\ WasWritten("VarInt") => Len(Encoded) \in 1..5
    /\ WasWritten("VarLong") => Len(Encoded) \in 1..10

\* C12 happens: the three strings of the test came back from the bytes
\* they were written to.
PrimitiveRoundTripWitness ==
    /\ WasRead("Vec<String>")
    /\ WasWritten("Vec<String>")
    /\ Len(codec.value[1]) = 3
    /\ codec.read[1].ok
    /\ codec.read[1].val = codec.value[1]

\* C13: String::pack_write of a string above 32767 bytes (32768 is in the
\* runs) fails and leaves the buffer as it was, and of a string of at most
\* 32767 bytes succeeds; String::pack_read fails when the length VarInt is
\* above 32767 or negative.
StringCap ==
    /\ (codec.T = "String" /\ codec.value # None /\ codec.wrote # None) =>
           IF Len(codec.value[1]) > 32767
           THEN codec.wrote = Some(FALSE) /\ Len(codec.buffer) = codec.start
           ELSE codec.wrote = Some(TRUE)
    /\ WasRead("String") =>
           \E size \in {VarIntRead(codec.buffer, codec.start)} :
               (size.ok /\ (size.val > 32767 \/ size.val < 0)) => ~codec.read[1].ok

\* C13 happens: the write of a string of 32768 bytes failed.
StringCapWitness ==
    /\ codec.T = "String"
    /\ codec.value # None
    /\ Len(codec.value[1]) = 32768
    /\ codec.wrote = Some(FALSE)
    /\ Len(codec.buffer) = codec.start

\* C14: Option<T>::pack_read (T = i64 in the runs) returns None for the
\* tag byte 0, reads T and returns Some of it for the tag byte 1, and
\* fails for every other tag byte.
OptionTagChecked ==
    (WasRead("Option<i64>") /\ Len(codec.buffer) > codec.start) =>
        \E tag \in {codec.buffer[codec.start + 1]} :
        \E r \in {codec.read[1]} :
            /\ tag = 0 => (r.ok /\ r.val = None /\ r.pos = codec.start + 1)
            /\ (tag = 1 /\ Len(codec.buffer) >= codec.start + 9)
                   => (r.ok /\ r.val = Some(I64Read(codec.buffer, codec.start + 1).val))
            /\ tag \notin {0, 1} => ~r.ok

\* what was written reads back as a value equal to the one written
ReadsEqual(T) ==
    (WasRead(T) /\ codec.value # None) =>
        (codec.read[1].ok /\ codec.read[1].val = codec.value[1])

\* C15: for each packet struct and each instance p of it, the struct's
\* pack_read on the bytes p.pack_write produced returns a packet equal to
\* p.
PacketRoundTrip ==
    /\ ReadsEqual("PacketHandshakeIn")
    /\ ReadsEqual("PacketStatusInRequest")
    /\ ReadsEqual("PacketStatusInPing")

\* the read of the stage P went by the id: the reader of the struct
\* declared with the id ran on the bytes after the id, and a read under an
\* id that P does not declare failed
DispatchedById(P) ==
    WasRead(P) =>
        \E id \in {VarIntRead(codec.buffer, codec.start)} :
            id.ok =>
                /\ \A name \in StagePackets(P) :
                      PacketId(name) = id.val
                          => codec.read[1] = PackRead(name, codec.buffer, id.pos)
                /\ id.val \notin {PacketId(name) : name \in StagePackets(P)}
                       => ~codec.read[1].ok

\* C16: the pack_read of a stage reads a VarInt id and returns the variant
\* declared with that id, decoded from the bytes after it; under an id the
\* stage does not declare it fails; and each variant written by the
\* stage's pack_write is read back by it.
StageDispatch ==
    /\ DispatchedById("InHandshake") /\ DispatchedById("InStatus")
    /\ ReadsBack("InHandshake") /\ ReadsBack("InStatus")

\* C16 happens: bytes under the id 2, which InStatus does not declare,
\* were read as an InStatus, and the read failed.
StageDispatchWitness ==
    /\ WasRead("InStatus")
    /\ codec.value = None
    /\ Len(codec.buffer) > codec.start + 1
    /\ codec.buffer[codec.start + 1] = 2
    /\ ~codec.read[1].ok

(***************************************************************************)
(* More of what is expected of the framer.                                 *)
(***************************************************************************)
\* C17: without compression and encryption, what a call of consume
\* appends to the output is VarInt(n) and then the n bytes that the
\* packet's writer produced, and these bytes begin with the VarInt of the
\* packet's id.
PlainFrameEmitted ==
    (Plain /\ lastStep = "send") =>
        \E payload \in {PackWrite(sentPackets[Len(sentPackets)], <<>>).buf} :
            /\ sendPc = "ready"
            /\ lastFrame = VarIntWrite(Len(payload)) \o payload
            /\ IsPrefix(VarIntWrite(PacketId(sentPackets[Len(sentPackets)].name)), payload)

\* C17 happens: a ping was framed as the length 9, the id 1 and eight
\* bytes.
PlainFrameEmittedWitness ==
    /\ Plain
    /\ lastStep = "send"
    /\ sentPackets[Len(sentPackets)].name = "PacketStatusInPing"
    /\ Len(lastFrame) = 10
    /\ lastFrame[1] = 9
    /\ lastFrame[2] = 1

(***************************************************************************)
(* What the protocol description expects of a connection.                  *)
(***************************************************************************)
\* the server has sent nothing
NothingSent == sentPackets = <<>> /\ txBytes = <<>>

\* the first packet decoded on the connection is a PacketHandshakeIn
HandshakeDecoded == recvd # <<>> /\ recvd[1].name = "PacketHandshakeIn"

\* the first thing the client wrote is a whole handshake frame with the
\* next_state n
FirstFrameAsks(n) == peerFrames # <<>> /\ peerFrames[1] = HandshakeFrame(n)

\* C18: a connection starts in Handshake and leaves it only when a
\* PacketHandshakeIn has been decoded, for Status iff its next_state is 1
\* and for Login iff it is 2; a handshake frame with another next_state
\* leaves it in Handshake; while no handshake is decoded nothing is sent,
\* and a failed read (another next_state, an unknown packet id), a timeout
\* or a socket read of 0 bytes ends the connection in Handshake.
HandshakeTransitions ==
    /\ lastStep = "init" => state = "Handshake"
    /\ state \in {"Handshake", "Status", "Login"}
    /\ state # "Handshake" =>
          /\ HandshakeDecoded
          /\ state = "Status" <=> HandshakeStateId(recvd[1].next_state) = 1
          /\ state = "Login" <=> HandshakeStateId(recvd[1].next_state) = 2
          /\ FirstFrameAsks(1) => state = "Status"
          /\ FirstFrameAsks(2) => state = "Login"
          /\ ~FirstFrameAsks(3)
    /\ HandshakeDecoded => state # "Handshake"
    /\ ~HandshakeDecoded =>
          /\ state = "Handshake"
          /\ NothingSent
          /\ (lastRead.kind = "Err" \/ lastStep \in {"timeout", "eof"}) => connPc = "failed"

\* C18 happens: a handshake with the next_state 3 was digested, its read
\* failed and the connection ended in Handshake.
HandshakeTransitionsWitness ==
    /\ peerFrames # <<>>
    /\ peerFrames[1] = HandshakeFrame(3)
    /\ rxBytes # <<>>
    /\ lastRead.kind = "Err"
    /\ connPc = "failed"
    /\ state = "Handshake"
    /\ NothingSent

\* the server has sent a PacketStatusOutResponse
ResponseSent == \E i \in 1..Len(sentPackets) : sentPackets[i].name = "PacketStatusOutResponse"

\* C19: in Status the PacketStatusOutResponse is sent only after the first
\* status packet has been received and is a PacketStatusInRequest; a
\* PacketStatusInPing is taken only as the packet after the request.
RequestBeforeResponse ==
    /\ ResponseSent => (Len(recvd) >= 2 /\ recvd[2].name = "PacketStatusInRequest")
    /\ \A i \in 1..Len(recvd) :
          recvd[i].name = "PacketStatusInPing"
              => (i = 3 /\ recvd[2].name = "PacketStatusInRequest")

\* the bytes of the PacketStatusOutPong that the server has sent, if any
PongsSent == {sentPackets[i].payload : i \in {j \in 1..Len(sentPackets) :
                                                sentPackets[j].name = "PacketStatusOutPong"}}

\* the client has written a handshake for Status, a request and the ping
\* frame VarInt(1) || PingPayload, and the handler has returned
PingExchange ==
    /\ peerFrames = <<HandshakeFrame(1), RequestFrame, PingFrame>>
    /\ connPc = "done"

\* C20: after the status response, when the client sends the frame
\* VarInt(0x01) || i64 payload, the server sends one PacketStatusOutPong,
\* and its payload is that i64.
PongEchoesPing ==
    PingExchange =>
        /\ ResponseSent
        /\ Len(sentPackets) = 2
        /\ PongsSent = {PingPayload}


(***************************************************************************)
(* The status response, the refusal of a login and disconnect.             *)
(***************************************************************************)
\* the i32 n shows the u32 u
ShowsU32(n, u) == n >= 0 /\ U32(n) = u

\* C21: every PacketStatusOutResponse the server sends carries
\* version.protocol = 759, players.max = the configured max_players, the
\* configured motd as the description and the runtime favicon, whatever
\* the client wrote.
StatusFromConfig ==
    \A i \in DOMAIN sentPackets :
        sentPackets[i].name = "PacketStatusOutResponse" =>
            /\ sentPackets[i].response.version.protocol = 759
            /\ ShowsU32(sentPackets[i].response.players.max, config.max_players)
            /\ sentPackets[i].response.description = Lobster(config.motd)
            /\ sentPackets[i].response.favicon = config.favicon

\* the handshake the server decoded asks for the state n
HandshakeAsks(n) == Len(recvd) >= 1 /\ recvd[1].next_state = n

\* C22: once the server has decoded a handshake with next_state = 2 it has
\* sent exactly one packet, a PacketLoginOutDisconnect (id 0x00) with a
\* component as its reason, it has read no packet but the handshake, and
\* the handler has returned, which closes the connection.
LoginRefused ==
    HandshakeAsks("Login") =>
        /\ state = "Login"
        /\ Len(sentPackets) = 1
        /\ sentPackets[1] = PacketLoginOutDisconnectNew(LoginRefusedJson)
        /\ txBytes = lastFrame
        /\ Rest(txBytes, 1) =
               <<PacketId("PacketLoginOutDisconnect")>>
                   \o VarIntWrite(Len(LoginRefusedJson)) \o LoginRefusedJson
        /\ Len(recvd) = 1
        /\ recvPc = "closed"
        /\ connPc = "done"

LoginRefusedWitness == HandshakeAsks("Login") /\ connPc = "done" /\ wire # <<>>

\* the packet disconnect sends in the state st
DisconnectPacketIn(st) ==
    IF st = "Login" THEN "PacketLoginOutDisconnect" ELSE "PacketPlayOutDisconnect"

\* neither key nor threshold is set on the sending side
PlainSender == enc.encryptor = None /\ enc.compression_threshold = None

\* disconnect has been called
Disconnected == lastStep = "disconnect"

DisconnectSends ==
    Disconnected /\ state \in {"Login", "Play"} =>
        /\ sentPackets # <<>>
        /\ \A i \in DOMAIN sentPackets : sentPackets[i].name = DisconnectPacketIn(state)
        /\ connPc = "disconnect"
        /\ txBytes # <<>>
        /\ PlainSender => lastFrame[2] = PacketId(DisconnectPacketIn(state))

DisconnectBails ==
    Disconnected /\ state \in {"Handshake", "Status"} =>
        /\ connPc = "failed"
        /\ sentPackets = <<>>
        /\ txBytes = <<>>

\* C23: disconnect sends a PacketLoginOutDisconnect in Login and a
\* PacketPlayOutDisconnect in Play; in Handshake and in Status it fails and
\* writes no byte; and in no case does the call change the protocol state.
DisconnectByState ==
    /\ [](DisconnectSends /\ DisconnectBails)
    /\ [][state' = state]_vars

DisconnectByStateWitness == Disconnected /\ state = "Play" /\ PlainSender /\ Len(sentPackets) = 2

(***************************************************************************)
(* Admission: the player counter.                                          *)
(***************************************************************************)
\* the number a u32 below 2^31 stands for
U32Value(u) == u[1] * 65536 + u[2]

\* tasks whose try_add has returned, with Ok and with Err
Admitted == {t \in DOMAIN tasks : tasks[t].pc = "in"}

Refused == {t \in DOMAIN tasks : tasks[t].pc = "refused"}

AllReturned == Admitted \cup Refused = DOMAIN tasks

\* C24: with M tasks that each call try_add once, in any interleaving of
\* their loads and compare-exchanges, on a counter that starts at 0 with
\* the max N, the count never exceeds N, and when all calls have returned
\* exactly min(M, N) of them have succeeded and the others have failed;
\* with N = 0 every call fails and the count stays 0.
AdmissionCap ==
    /\ ~U32Gt(players.count, players.max)
    /\ players.count = U32(Cardinality(Admitted))
    /\ AllReturned =>
           /\ Cardinality(Admitted) = Min(Len(tasks), U32Value(players.max))
           /\ Cardinality(Refused) = Len(tasks) - Cardinality(Admitted)
    /\ players.max = U32(0) => Admitted = {} /\ players.count = U32(0)

\* three tasks raced for two places, and one of them had to load again
AdmissionCapWitness ==
    /\ AllReturned
    /\ Len(tasks) = 3
    /\ players.max = U32(2)
    /\ tally.added = 2
    /\ tally.refused = 1

CountIsBalance == players.count = U32(tally.added - tally.removed)

\* C25: every remove_player of a task admitted before frees one place:
\* the count is always the successful try_add calls minus the
\* remove_player calls, it never exceeds the max, a try_add fails only
\* while the count is at the max (so from a full counter exactly as many
\* further calls succeed as players were removed, before a call fails
\* again), and get returns that count.
RemoveRebalances ==
    /\ [](CountIsBalance /\ ~U32Gt(players.count, players.max))
    /\ [][tally'.refused > tally.refused => players.count = players.max]_vars
    /\ [](tally.got # None => tally.got = Some(U32(tally.added - tally.removed)))

\* the counter was full, a player left, another was admitted in their
\* place, and the counter is full again
RemoveRebalancesWitness ==
    /\ tally.refused >= 2
    /\ tally.removed >= 1
    /\ tally.added = U32Value(players.max) + tally.removed
    /\ players.count = players.max
    /\ tally.got = Some(players.max)

FrameBuffered == \E p \in StatusPackets : IsPrefix(PlainFrame(p), dec.staging_buf)

\* a step of read_packet on the socket: a read that gave bytes, that gave
\* none, or that timed out
SocketStep == recvPc = "recv" /\ lastStep' \in {"digest", "eof", "timeout"}

BufferedFrameReturned ==
    ReadStep /\ FrameBuffered =>
        /\ Len(recvd') = Len(recvd) + 1
        /\ wire' = wire
        /\ rxBytes' = rxBytes
        /\ timer' = timer

SocketReadWhenNoFrame == SocketStep => ~FrameBuffered /\ lastRead.kind = "None"

SocketReadFails ==
    /\ lastStep' = "eof" => wire = <<>> /\ recvPc' = "failed"
    /\ lastStep' = "timeout" =>
           timer.waited = TimeoutSecs /\ wire = <<>> /\ recvPc' = "failed"

TimerRestarts ==
    /\ DigestStep => timer'.waited = 0
    /\ ReadStep /\ recvPc' = "recv" => timer'.waited = 0

\* C27: read_packet returns a packet without touching the socket when a
\* whole frame is buffered; otherwise it reads the socket, and fails when
\* the read gives 0 bytes or when no byte has come 5 seconds after that
\* read began; the 5 seconds start anew with every socket read, so a wait
\* is never cut short by the time that passed before it.
ReadPacketTimer ==
    /\ [][BufferedFrameReturned /\ SocketReadWhenNoFrame /\ SocketReadFails
              /\ TimerRestarts]_vars
    /\ [](timer.waited <= TimeoutSecs)

\* a read timed out more than 5 seconds after the first read began, after
\* a packet had been returned
ReadPacketTimerWitness ==
    /\ lastStep = "timeout"
    /\ timer.elapsed > TimeoutSecs
    /\ recvd # <<>>

\* start is suspended in send_async
Suspended == recvPc = "send"

\* start has decoded a packet and hands it to send_async in this step, or
\* its suspended send_async is polled again
SendPolled ==
    \/ recvPc = "read" /\ lastStep' = "start" /\ lastRead'.kind = "Some"
    \/ recvPc = "send" /\ lastStep' = "resume"

\* C28: the channel of received packets never holds more than 32; when it
\* is full, start suspends in its send, and while it is suspended it
\* neither reads the socket nor decodes, until the application receives;
\* and a send that finds the receiver dropped ends the loop with Ok.
Backpressure ==
    /\ [](Len(inbound.queue) <= InboundCapacity)
    /\ [][SendPolled /\ inbound.receiver /\ FlumeFull(inbound) => recvPc' = "send"]_vars
    /\ [][Suspended => dec' = dec /\ rxBytes' = rxBytes /\ recvd' = recvd]_vars
    /\ [][Suspended /\ recvPc' # "send" => ~FlumeFull(inbound) \/ ~inbound.receiver]_vars
    /\ [][SendPolled /\ ~inbound.receiver => recvPc' = "done"]_vars

\* the channel is full, start is suspended with one more packet in hand,
\* and bytes wait in the socket
BackpressureWitness ==
    /\ Suspended
    /\ Len(inbound.queue) = InboundCapacity
    /\ inbound.receiver
    /\ wire # <<>>

\* what the application has received or will receive from the channel
\* without a further step of start
Delivered == appRecvd \o inbound.queue \o inbound.waiting

\* the Play packets whose frames the client has written, in wire order
WirePackets == [k \in 1..PlaySent |-> PlayPacket(k)]

\* the inbound direction: the packets reach the application in wire order,
\* none twice, and none is lost to an error or left behind once start
\* waits for the socket with every byte taken in
InboundInOrder ==
    inbound.receiver =>
        /\ IsPrefix(Delivered, WirePackets)
        /\ lastRead.kind # "Err"
        /\ (recvPc = "recv" /\ wire = <<>>) => Len(Delivered) = PlaySent

\* the frames of packets, one after the other
RECURSIVE FramesOf(_)
FramesOf(packets) ==
    IF packets = <<>> THEN <<>> ELSE PlainFrame(Head(packets)) \o FramesOf(Tail(packets))

\* the packets whose frames write_all has put on the socket
Written == IF writerPc = "failed" THEN SubSeq(sentPackets, 1, Len(sentPackets) - 1)
           ELSE sentPackets

\* the outbound direction: start takes the packets in the order they were
\* sent into the channel, each once, and the socket holds their frames in
\* that order
OutboundInOrder ==
    /\ sentPackets \o outgoing.queue = appSent
    /\ PlainSender => txBytes = FramesOf(Written)

\* C29: within one direction of one connection the order of the packets is
\* kept: the application receives the Play packets in the order of their
\* frames on the wire, none lost and none twice, and start writes the
\* frames of the outbound packets in the order the packets entered the
\* outbound channel, each once.
PacketOrder == InboundInOrder /\ OutboundInOrder

\* start has returned
WriterEnded == writerPc \in {"done", "failed"}

\* start takes a packet from the channel in this step
WriterTakes == lastStep' = "write" /\ Len(sentPackets') > Len(sentPackets)

\* C30: once every sender of the outbound channel is dropped, start writes
\* the packets still queued, sees the closure and ends with Ok, and it ends
\* with Ok in no other way; a write that fails ends it with the error at
\* once, and nothing is written after that.
WriterClosure ==
    /\ outgoing.senders = 0 ~> WriterEnded
    /\ [](writerPc = "done" =>
            /\ outgoing.senders = 0
            /\ sentPackets = appSent
            /\ PlainSender => txBytes = FramesOf(appSent))
    /\ [][writerPc # "done" /\ writerPc' = "done" =>
            outgoing.senders = 0 /\ outgoing.queue = <<>>]_vars
    /\ [][WriterTakes /\ socket = "broken" => writerPc' = "failed"]_vars
    /\ [][writerPc = "failed" =>
            writerPc' = "failed" /\ txBytes' = txBytes /\ sentPackets' = sentPackets]_vars

\* two packets were sent, the senders dropped, and start has written both
\* frames and ended with Ok
WriterClosureWitness ==
    /\ writerPc = "done"
    /\ PlainSender
    /\ Len(appSent) = 2
    /\ txBytes = FramesOf(appSent)
    /\ socket = "open"
(***************************************************************************)
(* Claims about the listener, the decoder under a key set mid-stream, the  *)
(* identifier parser, the failure paths of the framers and the proxy.      *)
(***************************************************************************)
\* the i-th task ends in this step
TaskEnds(i) == conns[i].pc \in Awaiting /\ conns'[i].pc \notin Awaiting

\* every connection but the i-th is as it was
OthersUntouched(i) ==
    /\ Len(conns') = Len(conns)
    /\ \A j \in DOMAIN conns : j # i => conns'[j] = conns[j]

\* C31: an error on one connection (a frame that does not decode, a
\* timeout, an end of file) ends the task of that connection only: the
\* listener goes on accepting, a failed accept does not end it either, and
\* no step of one connection changes the state or the buffers of another.
ErrorIsolation ==
    /\ [](listener.running /\ (Len(conns) < MaxConns => ENABLED Accept))
    /\ [][\A i \in DOMAIN conns : TaskEnds(i) =>
            listener' = listener /\ OthersUntouched(i) /\ players' = players]_vars
    /\ [][listener'.failed # listener.failed =>
            listener'.running /\ listener'.accepted = listener.accepted /\ conns' = conns]_vars
    /\ [][\A i \in DOMAIN conns : conns'[i] # conns[i] => OthersUntouched(i)]_vars

\* one task has ended with an error of its own, and a connection accepted
\* after that goes through its status exchange
ErrorIsolationWitness ==
    /\ Len(conns) = 2
    /\ conns[1].pc = "failed"
    /\ conns[1].ended = "decode"
    /\ conns[2].state = "Status"
    /\ conns[2].pc = "ping"
    /\ listener.failed > 0
    /\ listener.running

\* the bytes the socket read of this step has given
NewBytes == SubSeq(rxBytes', Len(rxBytes) + 1, Len(rxBytes'))

\* the first digest after set_encryption: all that is staged was digested
\* before the call
FirstKeyedDigest == DigestStep /\ dec.decryptor # None /\ chunking.keyed = 0

\* C32: setting the key mid-stream changes nothing of what is already
\* staged, and the digest that follows keeps the staged bytes as they are,
\* in place, and decrypts only the bytes it is given.
MidStreamKeyKeepsStaged ==
    /\ [][lastStep' = "key" => dec'.staging_buf = dec.staging_buf]_vars
    /\ [][FirstKeyedDigest =>
            dec'.staging_buf =
                dec.staging_buf \o Cfb8Decrypt(dec.decryptor[1], NewBytes, 1).data]_vars

\* the position of the first ':' of text, or 0
FirstColon(text) ==
    IF \E i \in DOMAIN text : text[i] = 58
    THEN CHOOSE i \in DOMAIN text : text[i] = 58 /\ \A j \in 1..(i - 1) : text[j] # 58
    ELSE 0

\* a to z, 0 to 9, '.', '_' and '-'
IsNamespaceChar(c) == (c >= 97 /\ c <= 122) \/ (c >= 48 /\ c <= 57) \/ c \in {46, 95, 45}

IsPathChar(c) == IsNamespaceChar(c) \/ c = 47

\* the identifier the text stands for: both halves around the first ':'
\* not empty and of the allowed characters
WellFormedIdent(text) ==
    Bind(FirstColon(text), LAMBDA k :
        /\ k > 1 /\ k < Len(text)
        /\ \A i \in 1..(k - 1) : IsNamespaceChar(text[i])
        /\ \A i \in (k + 1)..Len(text) : IsPathChar(text[i]))

\* no ':' at all, or a character that is not allowed in its half
IllFormedIdent(text) ==
    Bind(FirstColon(text), LAMBDA k :
        \/ k = 0
        \/ \E i \in 1..(k - 1) : ~IsNamespaceChar(text[i])
        \/ \E i \in (k + 1)..Len(text) : ~IsPathChar(text[i]))

\* C33: parse splits the text on its first ':' into a namespace of a-z,
\* 0-9, '.', '_', '-' and a path of these and '/', and fails on any other
\* text: "minecraft:stone" gives minecraft and stone, "Minecraft:Stone"
\* fails.
ParseSplitsOnColon ==
    (ident # None /\ ident.result # None) =>
        Bind(ident.result[1], LAMBDA r :
        Bind(FirstColon(ident.text), LAMBDA k :
            /\ WellFormedIdent(ident.text) =>
                  /\ r.ok
                  /\ r.id[1].namespace = SubSeq(ident.text, 1, k - 1)
                  /\ r.id[1].path = SubSeq(ident.text, k + 1, Len(ident.text))
            /\ IllFormedIdent(ident.text) => ~r.ok))

\* what an encoder of the same configuration that has consumed nothing
\* emits for the packet
FreshlyEmitted(packet) ==
    EncoderConsume(EncoderConfigured(enc.shared_secret, enc.compression_threshold), <<>>,
                   packet).buf

\* C34: when consume has returned, with Ok or with an error, the staging
\* buffer and the compression buffer of the encoder are empty, and what a
\* consume emits is what the packet alone determines.
ConsumeLeavesNothing ==
    lastStep = "consume" =>
        /\ enc.staging_buf = <<>>
        /\ enc.compression_buf = <<>>
        /\ sendPc = "ready" => lastFrame = FreshlyEmitted(sentPackets[Len(sentPackets)])

\* a call of read, the first or a repeated one, returns Err in this step
ReadFails == lastStep' \in {"read", "reread"} /\ lastRead'.kind = "Err"

ProxyDecodesAlike ==
    /\ proxy.proxy.staging = dec.staging_buf
    /\ proxy.last # None =>
          /\ proxy.last[1].kind = lastRead.kind
          /\ proxy.last[1].err = lastRead.err
          /\ proxy.last[1].kind = "Some" => proxy.last[1].packet[1] = recvd[Len(recvd)]

\* the latest encode emitted what consume emitted
ProxyEncodesAlike == lastStep = "encode" => proxy.out = lastFrame

\* C36: a PacketProxy behaves as a framer without key and threshold: its
\* accept and next give the results and keep the staged bytes of digest
\* and read, and its encode emits the bytes of consume.
ProxyIsPlainFramer == ProxyDecodesAlike /\ ProxyEncodesAlike

\* a proxy that only decodes is the decoder, and a proxy that only encodes
\* is the encoder, its staging buffer included
ProxyIsPlainFramerOneWay ==
    /\ sentPackets = <<>> => ProxyDecodesAlike
    /\ rxBytes = <<>> => ProxyEncodesAlike /\ proxy.proxy.staging = enc.staging_buf

\* C37: the protocol state of a connection changes at most once, from
\* Handshake to Status or from Handshake to Login: no step leaves Status or
\* Login, none returns to Handshake, and no inbound packets bring the
\* connection to Play
StateChangesOnce ==
    /\ [](state \in {"Handshake", "Status", "Login"})
    /\ [][state' # state => state = "Handshake" /\ state' \in {"Status", "Login"}]_vars
    /\ [][state' # state => lastStep' = "read" /\ connPc = "handshake"]_vars

\* a status exchange has run to its end after the one change of state
StateChangesOnceWitness ==
    /\ state = "Status"
    /\ connPc = "done"
    /\ Len(sentPackets) = 2
    /\ Len(recvd) = 3

\* the task t is inside a call of try_add
InTryAdd(t) == t \in DOMAIN tasks /\ tasks[t].pc \in {"load", "cas"}

\* the call of try_add that the task t made has returned, Ok or Err
TryAddReturned(t) == t \in DOMAIN tasks /\ tasks[t].pc \in {"in", "refused"}

\* the task t takes the step that ends its call of try_add with Err
TryAddFails(t) ==
    /\ t \in DOMAIN tasks
    /\ tasks[t].pc = "load"
    /\ tasks'[t].pc = "refused"

\* the compare_exchange of the task t fails and its loop starts again
CasRetries(t) ==
    /\ t \in DOMAIN tasks
    /\ tasks[t].pc = "cas"
    /\ tasks'[t].pc = "load"

\* C38: with finitely many calls of try_add and remove_player running
\* concurrently under fair scheduling every call of try_add returns; a
\* compare_exchange fails only when another call has changed the counter
\* since this call loaded it, and a failed compare_exchange and a try_add
\* that fails leave the counter as it was
TryAddTerminates ==
    /\ \A t \in 1..MaxContenders : InTryAdd(t) ~> TryAddReturned(t)
    /\ [][\A t \in 1..MaxContenders :
             /\ CasRetries(t) => players.count # tasks[t].seen /\ players' = players
             /\ TryAddFails(t) => players' = players]_vars

\* a task has loaded the counter and another task's compare_exchange has
\* come first, so that the compare_exchange of the first is bound to fail
\* and its loop to run again
TryAddTerminatesWitness ==
    /\ \E t \in DOMAIN tasks :
          /\ tasks[t].pc = "cas"
          /\ players.count # tasks[t].seen
          /\ \E u \in DOMAIN tasks : u # t /\ tasks[u].pc = "in"
    /\ tally.added = 2

\* the places of the packets of a name among the packets handed to
\* send_packet
SentAt(name) == {i \in DOMAIN sentPackets : sentPackets[i].name = name}

\* the read_packet::<PacketStatusInPing> of the handler returns Err in this
\* step: the timeout, the end of the stream, or a frame that does not decode
PingReadFails ==
    /\ connPc = "ping"
    /\ \/ lastStep' \in {"timeout", "eof"}
       \/ lastStep' = "read" /\ lastRead'.kind = "Err"

\* the read_packet::<PacketStatusInPing> of the handler returns a packet in
\* this step
PingReadSucceeds ==
    /\ connPc = "ping"
    /\ lastStep' = "read"
    /\ lastRead'.kind = "Some"

\* C39: in Status the server sends at most one PacketStatusOutResponse and
\* at most one PacketStatusOutPong, the response before the pong, and the
\* pong only when the read of the ping has returned a packet; when that
\* read fails the task ends without an error and without a pong; and the
\* task ends with this exchange, after which it reads and sends nothing
StatusExchangeOnce ==
    /\ [](/\ Cardinality(SentAt("PacketStatusOutResponse")) <= 1
          /\ Cardinality(SentAt("PacketStatusOutPong")) <= 1
          /\ sentPackets # <<>> /\ state = "Status"
                 => sentPackets[1].name = "PacketStatusOutResponse"
          /\ SentAt("PacketStatusOutResponse") \cup SentAt("PacketStatusOutPong") # {}
                 => state = "Status")
    /\ [](SentAt("PacketStatusOutPong") # {}
             => /\ Len(recvd) = 3
                /\ recvd[3].name = "PacketStatusInPing"
                /\ connPc = "done")
    /\ [][PingReadFails => connPc' = "done" /\ sentPackets' = sentPackets]_vars
    /\ [][PingReadSucceeds
             => /\ connPc' = "done"
                /\ Len(sentPackets') = Len(sentPackets) + 1
                /\ SentAt("PacketStatusOutPong")' = {Len(sentPackets')}]_vars
    /\ [][Closed => UNCHANGED <<connPc, state, sentPackets, recvd, txBytes>>]_vars

\* the ping did not decode: the task has ended without an error, the
\* response sent and no pong
StatusExchangeOnceWitness ==
    /\ state = "Status"
    /\ connPc = "done"
    /\ lastStep = "read"
    /\ lastRead.kind = "Err"
    /\ Cardinality(SentAt("PacketStatusOutResponse")) = 1
    /\ SentAt("PacketStatusOutPong") = {}

\* C40: while the staged bytes begin with a length prefix below zero, read
\* returns None and leaves the staged bytes as they are, on every call and
\* however many bytes are digested behind the prefix; no packet is returned
\* and no staged byte consumed from then on, and read_packet ends only by
\* its timeout or at the end of the stream
NegativeLengthStalls ==
    /\ [][NegativePrefix(dec) /\ lastStep' = "read"
             => /\ lastRead'.kind = "None"
                /\ dec' = dec
                /\ recvPc' = "recv"]_vars
    /\ [][NegativePrefix(dec)
             => /\ NegativePrefix(dec')
                /\ recvd' = recvd
                /\ SubSeq(dec'.staging_buf, 1, Len(dec.staging_buf)) = dec.staging_buf
                /\ recvPc # "failed" /\ recvPc' = "failed"
                       => lastStep' \in {"timeout", "eof"}]_vars

\* read_packet has timed out behind a negative prefix, after a request was
\* returned before it and with bytes digested behind it that were never read
NegativeLengthStallsWitness ==
    /\ NegativePrefix(dec)
    /\ Len(dec.staging_buf) > 5
    /\ recvd # <<>>
    /\ lastRead.kind = "None"
    /\ recvPc = "failed"
    /\ lastStep = "timeout"
====
